---------------------------- MODULE Spec2Model ----------------------------
(***************************************************************************)
(* A model of the LinaVG tessellation core (src/src/Core/Drawer.cpp).      *)
(*                                                                         *)
(* Every public draw call is one action.  The buffer store holds, per      *)
(* buffer kind, an array of draw buffers; a buffer is its batching key,    *)
(* its vertex array and its index array.  A buffer reference is the pair   *)
(* <<kind, position in that kind's array>>.                                *)
(*                                                                         *)
(* Numbers.  The code computes in 32 bit floats.  The model computes in    *)
(* integers and exact fractions: an angle is a whole number of degrees, a  *)
(* coordinate a whole number of thousandths, a UV component the fraction   *)
(* n/d that Math::Remap forms.  Loop trip counts are those of exact        *)
(* arithmetic.  A vertex position that the code obtains by normalising,    *)
(* extruding or rotating keeps the coordinates it was derived from and     *)
(* records the operation in the fields how and by; only a position whose   *)
(* how is "exact" is a number the model computes with.                     *)
(***************************************************************************)
EXTENDS Integers, Sequences, FiniteSets, TLC

VARIABLES
    bufs,           \* BufferStore data: kind -> array of draw buffers
    errorCallback,  \* Config.errorCallback is non-null
    uvOverride,     \* BufferStore data m_uvOverride
    rectOverride,   \* BufferStore data m_rectOverrideData.overrideRectPositions
    calls,          \* public draw calls made since the last frame reset
    last,           \* what the last public call did (its arguments and outcome)
    loop,           \* a vertex-generation loop in progress (step-wise view)
    gl,             \* the GL backend: the context's state and m_glState
    layout          \* a text layout call and what it gave (layout view)

vars == <<bufs, errorCallback, uvOverride, rectOverride, calls, last, loop, gl, layout>>

----------------------------------------------------------------------------
(* Bounds of the model. *)

\* Public draw calls per frame.
MaxCalls == 2

\* Characters of a text in the layout view.
MaxText == 4

\* The magnitude (in loop increments) at which the step-wise view stops
\* telling apart the values of a float that runs away from its exit bound.
MaxRunaway == 4

----------------------------------------------------------------------------
(* Small helpers. *)

Min2(a, b) == IF a < b THEN a ELSE b
Max2(a, b) == IF a > b THEN a ELSE b
AbsI(a) == IF a < 0 THEN -a ELSE a

\* Math::Clamp
Clamp(v, lo, hi) == IF v < lo THEN lo ELSE IF v > hi THEN hi ELSE v

\* The sequence f(lo), f(lo+1), ..., f(hi); empty when hi < lo.
SeqOf(lo, hi, f(_)) == [k \in 1..(IF hi < lo THEN 0 ELSE hi - lo + 1) |-> f(lo + k - 1)]

RECURSIVE Flatten(_)
Flatten(ss) == IF ss = <<>> THEN <<>> ELSE Head(ss) \o Flatten(Tail(ss))

Reverse(s) == [k \in 1..Len(s) |-> s[Len(s) + 1 - k]]

\* Array::findIndex / erase(findAddr(v)): remove the first occurrence of v.
RECURSIVE EraseFirst(_, _)
EraseFirst(s, v) ==
    IF s = <<>> THEN <<>>
    ELSE IF Head(s) = v THEN Tail(s)
    ELSE <<Head(s)>> \o EraseFirst(Tail(s), v)

\* cos and sin of a multiple of 30 degrees, in thousandths.
CosK(a) ==
    LET m == a % 360 IN
    CASE m = 0 -> 1000 [] m = 30 -> 866 [] m = 60 -> 500 [] m = 90 -> 0
      [] m = 120 -> -500 [] m = 150 -> -866 [] m = 180 -> -1000
      [] m = 210 -> -866 [] m = 240 -> -500 [] m = 270 -> 0
      [] m = 300 -> 500 [] m = 330 -> 866

SinK(a) == CosK(a + 270)

----------------------------------------------------------------------------
(* Vertices. *)

\* A position: coordinates, plus what was applied to them.
Pos(x, y) == [x |-> x, y |-> y, how |-> "exact", by |-> 0]

\* Math::GetExtrudedFromNormal and its variants: p moved by thickness t along
\* the vertex normal.
Extruded(p, t) == [p EXCEPT !.how = "extruded", !.by = t]

\* Math::RotateAround(p, center, angle).
Rotated(p, angle) == [p EXCEPT !.how = "rotated", !.by = angle]

\* What a read outside an array yields.
Indeterminate == [x |-> 0, y |-> 0, how |-> "indeterminate", by |-> 0]

\* Math::Remap(val, lo, hi, 0, 1) as the fraction (val - lo) / (hi - lo).
Remap01(val, lo, hi) == [n |-> val - lo, d |-> hi - lo]

\* A UV pair of fractions; known is FALSE for a UV that is remapped against
\* the bounding box of positions the model does not compute.
UV(fu, fv) == [un |-> fu.n, ud |-> fu.d, vn |-> fv.n, vd |-> fv.d, known |-> TRUE]
UVc(u, v) == [un |-> u, ud |-> 1, vn |-> v, vd |-> 1, known |-> TRUE]
UVunknown == [un |-> 0, ud |-> 1, vn |-> 0, vd |-> 1, known |-> FALSE]

FracInUnit(n, d) == /\ d # 0
                    /\ (d > 0 => (0 <= n /\ n <= d))
                    /\ (d < 0 => (d <= n /\ n <= 0))
FracIs0(n, d) == d # 0 /\ n = 0
FracIs1(n, d) == d # 0 /\ n = d

\* Vec4 colours: a colour name and an alpha.
Col(name) == [rgb |-> name, a |-> 1]
NoCol == [rgb |-> "unset", a |-> 0]

Vtx(p, uv, c) == [pos |-> p, uv |-> uv, col |-> c]

\* Math::Lerp(colorStart, colorEnd, t) for t a fraction.
LerpCol(c1, c2, n, d) ==
    IF FracIs0(n, d) THEN c1 ELSE IF FracIs1(n, d) THEN c2
    ELSE [rgb |-> "mix", a |-> 1]

----------------------------------------------------------------------------
(* The buffer store.  A drawer state D is the store together with the      *)
(* bookkeeping of the call in progress: req counts the buffers requested,  *)
(* first is the kind and key of the first one requested,                   *)
(* cb the error callback invocations, rings logs the outline rings built.  *)

Kinds == {"Default", "Gradient", "Texture", "SimpleText", "SDFText"}

NoBuffers == [k \in Kinds |-> <<>>]

NewD(b, uvo, ro) ==
    [bufs |-> b, req |-> 0, first |-> <<>>, cb |-> 0, rings |-> <<>>, uvo |-> uvo, ro |-> ro, stale |-> FALSE]

BufAt(D, ref) == D.bufs[ref[1]][ref[2]]
VSize(D, ref) == Len(BufAt(D, ref).verts)

\* m_vertexBuffer[i] for a 0-based i.
VertAt(D, ref, i) ==
    IF i >= 0 /\ i < VSize(D, ref) THEN BufAt(D, ref).verts[i + 1]
    ELSE Vtx(Indeterminate, UVunknown, NoCol)

\* GetBuffer(kind, key, drawOrder): the existing buffer of that kind with
\* that key, else a new one appended to the kind's array.
GetBuffer(D, kind, key) ==
    LET arr == D.bufs[kind]
        hit == {i \in 1..Len(arr) : arr[i].key = key}
        D1 == [D EXCEPT !.req = @ + 1, !.first = IF D.req = 0 THEN <<kind, key>> ELSE @]
    IN  IF hit # {}
        THEN [d |-> D1, ref |-> <<kind, CHOOSE i \in hit : \A j \in hit : i <= j>>]
        ELSE [d |-> [D1 EXCEPT !.bufs[kind] = Append(@, [key |-> key, verts |-> <<>>, idx |-> <<>>])],
              ref |-> <<kind, Len(arr) + 1>>]

GetDefaultBuffer(D, drawOrder, shapeType) ==
    GetBuffer(D, "Default", [order |-> drawOrder, shape |-> shapeType])

GetGradientBuffer(D, grad, drawOrder, shapeType) ==
    GetBuffer(D, "Gradient", [order |-> drawOrder, shape |-> shapeType, grad |-> grad])

GetTextureBuffer(D, handle, drawOrder, shapeType) ==
    GetBuffer(D, "Texture", [order |-> drawOrder, shape |-> shapeType, tex |-> handle])

\* DrawBuffer::PushVertex, for a sequence of vertices.
PushVerts(D, ref, vs) == [D EXCEPT !.bufs[ref[1]][ref[2]].verts = @ \o vs]

\* DrawBuffer::PushIndex, for a sequence of indices.
PushIdx(D, ref, is) == [D EXCEPT !.bufs[ref[1]][ref[2]].idx = @ \o is]

\* Overwrite the vertices at 0-based positions lo..hi by f(old vertex).
MapVerts(D, ref, lo, hi, f(_)) ==
    [D EXCEPT !.bufs[ref[1]][ref[2]].verts =
        [k \in 1..Len(@) |-> IF k - 1 >= lo /\ k - 1 <= hi THEN f(@[k]) ELSE @[k]]]

\* Config.errorCallback(msg) behind its guard "if (Config.errorCallback)".
ReportError(D, cbSet) == IF cbSet THEN [D EXCEPT !.cb = @ + 1] ELSE D

----------------------------------------------------------------------------
(* Bounding boxes and UVs. *)

\* One iteration of the loop of GetConvexBoundingBox: the maximum is only
\* looked at when the point did not lower the minimum.
BBStep(bb, p) ==
    [minx |-> IF p.x < bb.minx THEN p.x ELSE bb.minx,
     maxx |-> IF p.x < bb.minx THEN bb.maxx ELSE IF p.x > bb.maxx THEN p.x ELSE bb.maxx,
     miny |-> IF p.y < bb.miny THEN p.y ELSE bb.miny,
     maxy |-> IF p.y < bb.miny THEN bb.maxy ELSE IF p.y > bb.maxy THEN p.y ELSE bb.maxy]

RECURSIVE BBFold(_, _)
BBFold(bb, ps) == IF ps = <<>> THEN bb ELSE BBFold(BBStep(bb, Head(ps)), Tail(ps))

GetConvexBoundingBox(ps) ==
    BBFold([minx |-> 99999, maxx |-> -99999, miny |-> 99999, maxy |-> -99999], ps)

GetTriangleBoundingBox(p1, p2, p3) ==
    [minx |-> Min2(Min2(p1.x, p2.x), p3.x), maxx |-> Max2(Max2(p1.x, p2.x), p3.x),
     miny |-> Min2(Min2(p1.y, p2.y), p3.y), maxy |-> Max2(Max2(p1.y, p2.y), p3.y)]

\* uv.x = Remap(pos.x, bbMin.x, bbMax.x, 0, 1); uv.y likewise.
RemapUV(p, bb) == UV(Remap01(p.x, bb.minx, bb.maxx), Remap01(p.y, bb.miny, bb.maxy))

AllExact(vs) == \A k \in 1..Len(vs) : vs[k].pos.how = "exact"

\* CalculateVertexUVs(buf, startIndex, endIndex), 0-based inclusive range.
CalculateVertexUVs(D, ref, startIndex, endIndex) ==
    LET vs == SeqOf(startIndex, endIndex, LAMBDA i : VertAt(D, ref, i))
        bb == GetConvexBoundingBox([k \in 1..Len(vs) |-> vs[k].pos])
        F(v) == [v EXCEPT !.uv = IF AllExact(vs) THEN RemapUV(v.pos, bb) ELSE UVunknown]
    IN  MapVerts(D, ref, startIndex, endIndex, F)

\* RotateVertices(vertices, center, startIndex, endIndex, angle).
RotateVertices(D, ref, startIndex, endIndex, angle) ==
    LET F(v) == [v EXCEPT !.pos = Rotated(v.pos, angle)]
    IN  IF angle = 0 THEN D ELSE MapVerts(D, ref, startIndex, endIndex, F)

----------------------------------------------------------------------------
(* Index generation. *)

\* ConvexFillVertices without its closing triangle, whatever
\* skipLastTriangle says.
ConvexFillVerticesOpen(D, ref, startIndex, endIndex, skipLastTriangle) ==
    PushIdx(D, ref, Flatten(SeqOf(startIndex + 1, endIndex - 1,
                                  LAMBDA i : <<startIndex, i, i + 1>>)))

\* ConvexFillVertices(startIndex, endIndex, indices, skipLastTriangle).
ConvexFillVertices(D, ref, startIndex, endIndex, skipLastTriangle) ==
    LET fan == Flatten(SeqOf(startIndex + 1, endIndex - 1,
                             LAMBDA i : <<startIndex, i, i + 1>>))
        lastFill == IF skipLastTriangle THEN <<>>
                    ELSE <<startIndex, startIndex + 1, endIndex>>
    IN  PushIdx(D, ref, fan \o lastFill)

\* The ring indices with the closing edge always filled in.
RingIndicesClosed(first, totalSize, skipEnds) ==
    LET next(i) == IF i + 1 >= first + totalSize THEN first ELSE i + 1
    IN  Flatten(SeqOf(first, first + totalSize - 1,
                      LAMBDA i : <<i, next(i), i + totalSize,
                                   next(i), next(i) + totalSize, i + totalSize>>))

\* The quad strip between a ring of totalSize vertices starting at first
\* and its extruded copy: two triangles per edge, the closing edge left out
\* when skipEnds.
RingIndices(first, totalSize, skipEnds) ==
    LET next(i) == IF i + 1 >= first + totalSize THEN first ELSE i + 1
        lastI == IF skipEnds THEN first + totalSize - 2 ELSE first + totalSize - 1
    IN  Flatten(SeqOf(first, lastI,
                      LAMBDA i : <<i, next(i), i + totalSize,
                                   next(i), next(i) + totalSize, i + totalSize>>))

\* ConvexExtrudeVertices(buf, opts, center, startIndex, endIndex, thickness,
\* skipEndClosing).
ConvexExtrudeVertices(D, ref, startIndex, endIndex, thickness, skipEndClosing) ==
    LET totalSize == endIndex - startIndex + 1
        ext == SeqOf(startIndex, startIndex + totalSize - 1,
                     LAMBDA i : Vtx(Extruded(VertAt(D, ref, i).pos, thickness),
                                    UVunknown, VertAt(D, ref, i).col))
    IN  PushIdx(CalculateVertexUVs(PushVerts(D, ref, ext), ref, startIndex, endIndex + totalSize),
                ref, RingIndices(startIndex, totalSize, skipEndClosing))

----------------------------------------------------------------------------
(* Outlines and anti-aliasing fringes. *)

\* OutlineOptions::FromStyle(opts, drawDirection): outline options that
\* repeat the fill's colour and texture.
FromStyle(opts, dir) ==
    [thickness |-> 0, drawDirection |-> dir, color |-> opts.color,
     textureHandle |-> opts.textureHandle]

\* The thickness both outline entry points start from.
OutlineThickness(opts, isAAOutline, defThickness) ==
    IF isAAOutline THEN opts.aaMultiplier ELSE defThickness

\* A buffer request g together with the flag useTextureBuffer || useGradBuffer.
Dest(g, recalc) == [d |-> g.d, ref |-> g.ref, recalc |-> recalc]

\* The destination buffer of an outline (the same selection in DrawOutline
\* and DrawOutlineAroundShape).
OutlineDest(D, src, opts, drawOrder, outlineType) ==
    LET isAAOutline == outlineType # "Normal"
        isGradient == IF isAAOutline THEN src[1] = "Gradient"
                      ELSE opts.outlineOptions.color.start # opts.outlineOptions.color.end
        useTextureBuffer == IF outlineType = "AA" THEN opts.textureHandle # 0
                            ELSE opts.outlineOptions.textureHandle # 0
        handle == IF outlineType = "AA" THEN opts.textureHandle
                  ELSE opts.outlineOptions.textureHandle
        col == IF outlineType = "AA" THEN opts.color ELSE opts.outlineOptions.color
        shapeType == IF isAAOutline THEN "AA" ELSE "Shape"
    IN  IF useTextureBuffer
        THEN Dest(GetTextureBuffer(D, handle, drawOrder, shapeType), TRUE)
        ELSE IF isGradient
        THEN Dest(GetGradientBuffer(D, col, drawOrder, shapeType), TRUE)
        ELSE Dest(GetDefaultBuffer(D, drawOrder, shapeType), FALSE)

\* Record a ring that was built in buffer dst between drawer states D and E.
LogRing(D, E, dst, k, skipEnds, isAAOutline, by, thickness, src, from) ==
    [E EXCEPT !.rings = Append(@,
        [k |-> k, skipEnds |-> skipEnds, aa |-> isAAOutline, by |-> by,
         thickness |-> thickness, shape |-> BufAt(E, dst).key.shape,
         src |-> src, from |-> from, dst |-> dst, start |-> VSize(D, dst),
         dv |-> VSize(E, dst) - VSize(D, dst),
         di |-> Len(BufAt(E, dst).idx) - Len(BufAt(D, dst).idx)])]

\* "if (cond) CalculateVertexUVs(buf, startIndex, endIndex)".
CalculateVertexUVsIf(cond, D, ref, startIndex, endIndex) ==
    IF cond THEN CalculateVertexUVs(D, ref, startIndex, endIndex) ELSE D

\* The copy of a source vertex v that starts an outline ring, and the
\* vertex extruded from it.
OutlineCopy(v, isAAOutline, opts) ==
    Vtx(v.pos, v.uv, IF isAAOutline THEN v.col ELSE Col(opts.outlineOptions.color.start))
OutlineExtruded(v, isAAOutline, opts, thickness) ==
    Vtx(Extruded(v.pos, thickness), v.uv,
        IF isAAOutline THEN [v.col EXCEPT !.a = 0] ELSE Col(opts.outlineOptions.color.end))

\* copyAndFill extruding outwards whatever the sign of the thickness.
CopyAndFillOutwards(D, src, dst, opts, isAAOutline, skipEnds, startIndex, endIndex, thickness, reCalcUVs) ==
    LET destBufStart == VSize(D, dst)
        totalSize == endIndex - startIndex + 1
        copy == SeqOf(startIndex, endIndex,
                      LAMBDA i : OutlineCopy(VertAt(D, src, i), isAAOutline, opts))
        ext == SeqOf(startIndex, endIndex,
                     LAMBDA i : OutlineExtruded(VertAt(D, src, i), isAAOutline, opts, AbsI(thickness)))
    IN  LogRing(D,
                PushIdx(CalculateVertexUVsIf(~isAAOutline /\ reCalcUVs,
                                             PushVerts(D, dst, copy \o ext), dst,
                                             destBufStart, destBufStart + totalSize * 2 - 1),
                        dst, RingIndices(destBufStart, totalSize, skipEnds)),
                dst, Max2(totalSize, 0), skipEnds, isAAOutline, "DrawOutline", AbsI(thickness),
                src, SeqOf(startIndex, endIndex, LAMBDA i : i))

\* The lambda copyAndFill of DrawOutline.
CopyAndFill(D, src, dst, opts, isAAOutline, skipEnds, startIndex, endIndex, thickness, reCalcUVs) ==
    LET destBufStart == VSize(D, dst)
        totalSize == endIndex - startIndex + 1
        copy == SeqOf(startIndex, endIndex,
                      LAMBDA i : OutlineCopy(VertAt(D, src, i), isAAOutline, opts))
        ext == SeqOf(startIndex, endIndex,
                     LAMBDA i : OutlineExtruded(VertAt(D, src, i), isAAOutline, opts, thickness))
    IN  LogRing(D,
                PushIdx(CalculateVertexUVsIf(~isAAOutline /\ reCalcUVs,
                                             PushVerts(D, dst, copy \o ext), dst,
                                             destBufStart, destBufStart + totalSize * 2 - 1),
                        dst, RingIndices(destBufStart, totalSize, skipEnds)),
                dst, Max2(totalSize, 0), skipEnds, isAAOutline, "DrawOutline", thickness,
                src, SeqOf(startIndex, endIndex, LAMBDA i : i))

\* DrawOutline(sourceBuffer, opts, vertexCount, skipEnds, drawOrder,
\* outlineType, reverseDrawDir) is DrawOutlineInto on the destination g.
RECURSIVE DrawOutline(_, _, _, _, _, _, _, _)

\* The drawer state X when the DrawBuffer pointers ptrs, which were
\* resolved in state base, are dereferenced: a pointer into an array that
\* got a new buffer since (push_back may have moved the array) is stale.
Deref(X, base, ptrs) ==
    IF \E r \in ptrs : Len(X.bufs[r[1]]) > Len(base.bufs[r[1]])
    THEN [X EXCEPT !.stale = TRUE]
    ELSE X

\* "if (useAA) { DrawOutline(destBuf, o1, n1, .., OutlineAA, rev);
\* DrawOutline(destBuf, o2, n2, .., OutlineAA, rev); }": the fringes on both
\* sides of an outline ring.
OutlineFringes(D, useAA, destBuf, o1, n1, o2, n2, skipEnds, drawOrder, rev) ==
    IF useAA
    THEN DrawOutline(DrawOutline(D, destBuf, o1, n1, skipEnds, drawOrder, "OutlineAA", rev),
                     destBuf, o2, n2, skipEnds, drawOrder, "OutlineAA", rev)
    ELSE D

\* "if (useAA) DrawOutline(sourceBuffer, opts with FromStyle(opts, d), ..,
\* OutlineAA)": the fringe on the free side of a stroke.
StrokeFringe(D, useAA, src, opts, d, vertexCount, skipEnds, drawOrder) ==
    IF useAA
    THEN DrawOutline(D, src, [opts EXCEPT !.outlineOptions = FromStyle(opts, d)],
                     vertexCount, skipEnds, drawOrder, "OutlineAA", FALSE)
    ELSE D

\* DrawOutline once the destination buffer g is selected.  The five
\* branches of the code (filled: outwards or both, inwards; stroked:
\* outwards, inwards, both) end alike, with one copyAndFill and its fringes;
\* before it, a stroke gets the fringe of its free side, and a stroke
\* outlined both ways its inner ring.
DrawOutlineInto(g, src, opts, vertexCount, skipEnds, drawOrder, outlineType, reverseDrawDir) ==
    LET isAAOutline == outlineType # "Normal"
        t0 == OutlineThickness(opts, isAAOutline, opts.outlineOptions.thickness)
        thickness == IF reverseDrawDir THEN -t0 ELSE t0
        dir == opts.outlineOptions.drawDirection
        filled == opts.isFilled
        size == VSize(g.d, src)
        half == vertexCount \div 2
        endIndex == IF ~filled /\ dir = "Inwards" THEN size - half - 1 ELSE size - 1
        startIndex == IF ~filled /\ dir = "Outwards" THEN size - half ELSE size - vertexCount
        useAA == opts.aaEnabled /\ ~isAAOutline
        Out(o) == [o EXCEPT !.outlineOptions.drawDirection = "Outwards"]
        In(o) == [o EXCEPT !.outlineOptions.drawDirection = "Inwards"]
        Stroke(o) == [o EXCEPT !.isFilled = FALSE]
        inwards == dir = "Inwards"
    IN  OutlineFringes(
            CopyAndFill(
                \* sourceBuffer and destBuf are the pointers resolved with the
                \* destination; only destBuf is assigned again, from the
                \* first fringe of the inner ring of a stroke outlined both
                \* ways.
                Deref(CASE filled -> g.d
                        [] ~filled /\ dir = "Outwards" ->
                             StrokeFringe(g.d, useAA, src, opts, "Inwards", vertexCount, skipEnds, drawOrder)
                        [] ~filled /\ dir = "Inwards" ->
                             StrokeFringe(g.d, useAA, src, opts, "Outwards", vertexCount, skipEnds, drawOrder)
                        [] ~filled /\ dir = "Both" ->
                             OutlineFringes(
                                 CopyAndFill(g.d, src, g.ref, opts, isAAOutline, skipEnds,
                                             startIndex, startIndex + half - 1, -thickness, g.recalc),
                                 useAA, g.ref, Out(opts), vertexCount, In(opts), vertexCount,
                                 skipEnds, drawOrder, TRUE),
                      g.d, IF ~filled /\ dir = "Both" THEN {src} ELSE {src, g.ref}),
                src, g.ref, opts, isAAOutline, skipEnds,
                IF ~filled /\ dir = "Both" THEN startIndex + half ELSE startIndex, endIndex,
                IF inwards THEN -thickness ELSE thickness, g.recalc),
            useAA, g.ref,
            IF filled /\ ~inwards THEN Out(Stroke(opts)) ELSE Out(opts),
            IF filled /\ ~inwards THEN vertexCount * 2 ELSE vertexCount,
            IF filled THEN In(Stroke(opts)) ELSE In(opts),
            IF filled THEN vertexCount * 2 ELSE vertexCount,
            skipEnds, drawOrder, inwards)

DrawOutline(D, src, opts, vertexCount, skipEnds, drawOrder, outlineType, reverseDrawDir) ==
    DrawOutlineInto(OutlineDest(D, src, opts, drawOrder, outlineType), src, opts,
                    vertexCount, skipEnds, drawOrder, outlineType, reverseDrawDir)

\* DrawOutlineAroundShape(sourceBuffer, opts, indicesOrder, vertexCount,
\* defThickness, ccw, drawOrder, outlineType) is DrawOutlineAroundShapeInto
\* on the destination g; indicesOrder is a sequence of 0-based vertex
\* positions of the source buffer.
RECURSIVE DrawOutlineAroundShape(_, _, _, _, _, _, _, _)

\* The fringes of an outline ring that starts at destBufStart in destBuf:
\* one around its extruded vertices, one around its copied vertices.
AroundShapeAA(D, destBuf, opts, vertexCount, defThickness, drawOrder, destBufStart) ==
    DrawOutlineAroundShape(
        DrawOutlineAroundShape(D, destBuf, opts,
                               SeqOf(0, vertexCount - 1, LAMBDA i : destBufStart + vertexCount + i),
                               Max2(vertexCount, 0), defThickness, drawOrder, "OutlineAA"),
        destBuf, opts, SeqOf(0, vertexCount - 1, LAMBDA i : destBufStart + i),
        Max2(vertexCount, 0), -defThickness, drawOrder, "OutlineAA")

\* DrawOutlineAroundShape once the destination buffer g is selected.
DrawOutlineAroundShapeInto(g, src, opts, indicesOrder, vertexCount, defThickness, drawOrder, outlineType) ==
    LET isAAOutline == outlineType # "Normal"
        thickness == OutlineThickness(opts, isAAOutline, defThickness)
        destBufStart == VSize(g.d, g.ref)
        srcV(i) == IF i + 1 <= Len(indicesOrder)
                   THEN VertAt(g.d, src, indicesOrder[i + 1])
                   ELSE Vtx(Indeterminate, UVunknown, NoCol)
        copy == SeqOf(0, vertexCount - 1, LAMBDA i : OutlineCopy(srcV(i), isAAOutline, opts))
        ext == SeqOf(0, vertexCount - 1,
                     LAMBDA i : OutlineExtruded(srcV(i), isAAOutline, opts, thickness))
        AA(X) == IF opts.aaEnabled /\ ~isAAOutline
                 THEN AroundShapeAA(X, g.ref, opts, vertexCount, defThickness, drawOrder, destBufStart)
                 ELSE X
    IN  AA(LogRing(g.d,
                   PushIdx(CalculateVertexUVsIf(~isAAOutline /\ g.recalc,
                                                PushVerts(g.d, g.ref, copy \o ext), g.ref,
                                                destBufStart, destBufStart + vertexCount * 2 - 1),
                           g.ref, RingIndices(destBufStart, vertexCount, FALSE)),
                   g.ref, Max2(vertexCount, 0), FALSE, isAAOutline, "DrawOutlineAroundShape",
                   thickness, src, indicesOrder))

DrawOutlineAroundShape(D, src, opts, indicesOrder, vertexCount, defThickness, drawOrder, outlineType) ==
    DrawOutlineAroundShapeInto(OutlineDest(D, src, opts, drawOrder, outlineType), src, opts,
                               indicesOrder, vertexCount, defThickness, drawOrder, outlineType)

----------------------------------------------------------------------------
(* Rectangles. *)

\* FillRectData giving the second and the fourth corner each other's UV.
FillRectDataMirrored(D, hasCenter, min, max) ==
    LET tl == D.uvo.tl
        br == D.uvo.br
        c == Vtx(Pos((max.x + min.x) \div 2, (max.y + min.y) \div 2),
                 [un |-> tl.x + br.x, ud |-> 2, vn |-> tl.y + br.y, vd |-> 2, known |-> TRUE],
                 NoCol)
        ps == IF ~D.ro.on
              THEN <<Pos(min.x, min.y), Pos(max.x, min.y), Pos(max.x, max.y), Pos(min.x, max.y)>>
              ELSE D.ro.p
        v == <<Vtx(ps[1], UVc(tl.x, tl.y), NoCol), Vtx(ps[2], UVc(tl.x, br.y), NoCol),
               Vtx(ps[3], UVc(br.x, br.y), NoCol), Vtx(ps[4], UVc(br.x, tl.y), NoCol)>>
    IN  IF hasCenter THEN <<c>> \o v ELSE v

\* FillRectData(v, hasCenter, min, max): the corners (and centre) with the
\* UVs of the UV override.
FillRectData(D, hasCenter, min, max) ==
    LET tl == D.uvo.tl
        br == D.uvo.br
        c == Vtx(Pos((max.x + min.x) \div 2, (max.y + min.y) \div 2),
                 [un |-> tl.x + br.x, ud |-> 2, vn |-> tl.y + br.y, vd |-> 2, known |-> TRUE],
                 NoCol)
        ps == IF ~D.ro.on
              THEN <<Pos(min.x, min.y), Pos(max.x, min.y), Pos(max.x, max.y), Pos(min.x, max.y)>>
              ELSE D.ro.p
        v == <<Vtx(ps[1], UVc(tl.x, tl.y), NoCol), Vtx(ps[2], UVc(br.x, tl.y), NoCol),
               Vtx(ps[3], UVc(br.x, br.y), NoCol), Vtx(ps[4], UVc(tl.x, br.y), NoCol)>>
    IN  IF hasCenter THEN <<c>> \o v ELSE v

\* What every shape function ends with: the outline when it has a
\* thickness, else the anti-aliasing fringe when enabled.
OutlineOrAA(D, buf, opts, vertexCount, skipEnds, drawOrder) ==
    LET outline == opts.outlineOptions.thickness # 0
    IN  IF outline \/ opts.aaEnabled
        THEN DrawOutline(D, buf,
                         IF outline THEN opts
                         ELSE [opts EXCEPT !.outlineOptions = FromStyle(opts, "Both")],
                         vertexCount, skipEnds, drawOrder,
                         IF outline THEN "Normal" ELSE "AA", FALSE)
        ELSE D

WithCols(v, cols) == [k \in 1..Len(v) |-> [v[k] EXCEPT !.col = cols[k]]]

\* FillRect_NoRound_SC and FillRect_NoRound_VerHorGra: they differ in the
\* four corner colours only.  g is the buffer drawn into, with the store.
FillRect_NoRound(g, rotateAngle, min, max, cols, opts, drawOrder) ==
    LET current == VSize(g.d, g.ref)
        v == WithCols(FillRectData(g.d, FALSE, min, max), cols)
    IN  OutlineOrAA(
            RotateVertices(
                IF opts.isFilled
                THEN PushIdx(PushVerts(g.d, g.ref, v), g.ref,
                             <<current, current + 1, current + 3,
                               current + 1, current + 2, current + 3>>)
                ELSE ConvexExtrudeVertices(PushVerts(g.d, g.ref, v), g.ref, current, current + 3,
                                           opts.thickness.start, FALSE),
                g.ref, current, IF opts.isFilled THEN current + 3 ELSE current + 7, rotateAngle),
            g.ref, opts, IF opts.isFilled THEN 4 ELSE 8, FALSE, drawOrder)

FillRect_NoRound_SC(g, rotateAngle, min, max, color, opts, drawOrder) ==
    FillRect_NoRound(g, rotateAngle, min, max,
                     <<Col(color), Col(color), Col(color), Col(color)>>, opts, drawOrder)

FillRect_NoRound_VerHorGra(g, rotateAngle, min, max, colorTL, colorTR, colorBR, colorBL, opts, drawOrder) ==
    FillRect_NoRound(g, rotateAngle, min, max,
                     <<Col(colorTL), Col(colorTR), Col(colorBR), Col(colorBL)>>, opts, drawOrder)

\* FillRect_NoRound_RadialGra.
FillRect_NoRound_RadialGra(g, rotateAngle, min, max, startColor, endColor, opts, drawOrder) ==
    LET v == FillRectData(g.d, TRUE, min, max)
        startIndex == VSize(g.d, g.ref)
    IN  OutlineOrAA(
            RotateVertices(
                IF opts.isFilled
                THEN ConvexFillVertices(PushVerts(g.d, g.ref, v), g.ref,
                                        startIndex, startIndex + 4, FALSE)
                ELSE ConvexExtrudeVertices(PushVerts(g.d, g.ref, Tail(v)), g.ref,
                                           startIndex, startIndex + 3, opts.thickness.start, FALSE),
                g.ref, IF opts.isFilled THEN startIndex + 1 ELSE startIndex,
                IF opts.isFilled THEN startIndex + 4 ELSE startIndex + 7, rotateAngle),
            g.ref, opts, IF opts.isFilled THEN 4 ELSE 8, FALSE, drawOrder)

\* GetAngleIncrease(rounding), rounding in hundredths.
GetAngleIncrease(rounding) ==
    IF rounding < 25 THEN 20 ELSE IF rounding < 50 THEN 15
    ELSE IF rounding < 75 THEN 10 ELSE 5

\* The angles k of "for (k = startAngle; k < endAngle + 2.5f; k += inc)",
\* as offsets from startAngle, for an arc of span degrees.
ArcSteps(span, inc) == {j \in 0..(span + 3) : 2 * j * inc < 2 * span + 5}

\* A point of a corner arc: Math::GetPointOnCircle around the inflated corner.
ArcPoint(corner, k) == [x |-> corner.x, y |-> corner.y, how |-> "arc", by |-> k]

\* The vertices FillRect_Round makes of corner i of the rectangle v: the
\* corner itself, or its arc when it is among the rounded corners (all of
\* them when roundedCorners is empty).
RoundedCorner(v, roundedCorners, i, angleIncrease, col) ==
    IF Len(roundedCorners) # 0 /\ \A k \in 1..Len(roundedCorners) : roundedCorners[k] # i
    THEN <<Vtx(v[i + 1].pos, v[i + 1].uv, Col(col))>>
    ELSE [j \in 1..Cardinality(ArcSteps(90, angleIncrease)) |->
            Vtx(ArcPoint(v[i + 1].pos, 180 + 90 * i + (j - 1) * angleIncrease),
                UVunknown, Col(col))]

\* FillRect_Round once the centre vertex c and the boundary ring are computed.
FillRect_RoundRing(g, c, ring, rotateAngle, opts, drawOrder) ==
    LET startIndex == VSize(g.d, g.ref)
        vertexCount == Len(ring)
    IN  OutlineOrAA(
            RotateVertices(
                IF opts.isFilled
                THEN ConvexFillVertices(
                         CalculateVertexUVs(PushVerts(g.d, g.ref, <<c>> \o ring), g.ref,
                                            startIndex, startIndex + vertexCount),
                         g.ref, startIndex, startIndex + vertexCount, FALSE)
                ELSE ConvexExtrudeVertices(PushVerts(g.d, g.ref, ring), g.ref, startIndex,
                                           startIndex + vertexCount - 1,
                                           opts.thickness.start, FALSE),
                g.ref, IF opts.isFilled THEN startIndex + 1 ELSE startIndex,
                IF opts.isFilled THEN startIndex + vertexCount
                ELSE startIndex + vertexCount * 2 - 1, rotateAngle),
            g.ref, opts, IF opts.isFilled THEN vertexCount ELSE vertexCount * 2,
            FALSE, drawOrder)

\* The boundary ring of a rounded rectangle with the corners v.
RoundedRing(v, roundedCorners, angleIncrease, col) ==
    RoundedCorner(v, roundedCorners, 0, angleIncrease, col)
    \o RoundedCorner(v, roundedCorners, 1, angleIncrease, col)
    \o RoundedCorner(v, roundedCorners, 2, angleIncrease, col)
    \o RoundedCorner(v, roundedCorners, 3, angleIncrease, col)

\* FillRect_Round(buf, roundedCorners, rotateAngle, min, max, col, rounding,
\* opts, drawOrder).
FillRect_Round(g, roundedCorners, rotateAngle, min, max, col, rounding, opts, drawOrder) ==
    FillRect_RoundRing(
        g,
        Vtx(Pos((min.x + max.x) \div 2, (min.y + max.y) \div 2),
            [un |-> 1, ud |-> 2, vn |-> 1, vd |-> 2, known |-> TRUE], Col(col)),
        RoundedRing(FillRectData(g.d, FALSE, min, max), roundedCorners,
                    GetAngleIncrease(Clamp(rounding, 0, 90)), col),
        rotateAngle, opts, drawOrder)

----------------------------------------------------------------------------
(* Styles. *)

SolidColor(c) == [start |-> c, end |-> c, gradientType |-> "Horizontal"]
Gradient(c1, c2, type) == [start |-> c1, end |-> c2, gradientType |-> type]

NoOutline == [thickness |-> 0, drawDirection |-> "Outwards",
              color |-> SolidColor("black"), textureHandle |-> 0]

\* StyleOptions as default-constructed, with a solid colour.
DefaultStyle ==
    [color |-> SolidColor("red"), textureHandle |-> 0, rounding |-> 0,
     onlyRoundTheseCorners |-> <<>>, isFilled |-> TRUE,
     thickness |-> [start |-> 2, end |-> 2], outlineOptions |-> NoOutline,
     aaEnabled |-> FALSE, aaMultiplier |-> 1]

Outline(dir, c1, c2) == [thickness |-> 2, drawDirection |-> dir,
                         color |-> Gradient(c1, c2, "Horizontal"), textureHandle |-> 0]

Filled == DefaultStyle
Stroked == [DefaultStyle EXCEPT !.isFilled = FALSE]
FilledAA == [DefaultStyle EXCEPT !.aaEnabled = TRUE]
FilledOutlined == [DefaultStyle EXCEPT !.outlineOptions = Outline("Outwards", "black", "black")]
FilledOutlinedIn == [DefaultStyle EXCEPT !.outlineOptions = Outline("Inwards", "black", "white")]
StrokedOutlined == [Stroked EXCEPT !.outlineOptions = Outline("Outwards", "black", "black")]
StrokedOutlinedBoth == [Stroked EXCEPT !.outlineOptions = Outline("Both", "black", "black")]
FilledOutlinedBoth == [DefaultStyle EXCEPT !.outlineOptions = Outline("Both", "black", "black")]
StrokedOutlinedAA == [StrokedOutlined EXCEPT !.aaEnabled = TRUE]
FilledHorizontal == [DefaultStyle EXCEPT !.color = Gradient("red", "blue", "Horizontal")]
FilledVertical == [DefaultStyle EXCEPT !.color = Gradient("red", "blue", "Vertical")]
FilledRadial == [DefaultStyle EXCEPT !.color = Gradient("red", "blue", "Radial")]
FilledTextured == [DefaultStyle EXCEPT !.textureHandle = 1]
FilledRounded == [DefaultStyle EXCEPT !.rounding = 50]
FilledRadialCorner == [DefaultStyle EXCEPT !.color = Gradient("red", "blue", "RadialCorner")]
RoundedHorizontal == [FilledHorizontal EXCEPT !.rounding = 50]
TexturedRadial == [FilledRadial EXCEPT !.textureHandle = 1]
TexturedRounded == [RoundedHorizontal EXCEPT !.textureHandle = 1]

\* The styles the model draws with.
StyleSet == {Filled, Stroked, FilledAA, FilledOutlined, FilledOutlinedIn, StrokedOutlined,
             StrokedOutlinedBoth, FilledHorizontal, FilledVertical, FilledRadial,
             FilledTextured, FilledRounded}

IsSolid(style) == style.color.start = style.color.end
IsSolidGrad(color) == color.start = color.end

----------------------------------------------------------------------------
(* Drawer::DrawRect. *)

\* A selection that prefers the gradient buffer to the texture buffer.
ShapeBufferGradientFirst(D, style, drawOrder, wantsGradient) ==
    IF wantsGradient THEN GetGradientBuffer(D, style.color, drawOrder, "Shape")
    ELSE IF style.textureHandle # 0 THEN GetTextureBuffer(D, style.textureHandle, drawOrder, "Shape")
    ELSE GetDefaultBuffer(D, drawOrder, "Shape")

\* The buffer a shape call draws into when it needs the gradient buffer for
\* a gradient and the texture buffer for a texture.
ShapeBuffer(D, style, drawOrder, wantsGradient) ==
    IF style.textureHandle # 0 THEN GetTextureBuffer(D, style.textureHandle, drawOrder, "Shape")
    ELSE IF wantsGradient THEN GetGradientBuffer(D, style.color, drawOrder, "Shape")
    ELSE GetDefaultBuffer(D, drawOrder, "Shape")

DrawRectOn(D, min, max, style, rotateAngle, drawOrder) ==
    LET cs == style.color.start
        ce == style.color.end
        horizontal == style.color.gradientType = "Horizontal"
    IN  IF style.rounding # 0
        THEN FillRect_Round(ShapeBuffer(D, style, drawOrder, ~IsSolid(style)),
                            style.onlyRoundTheseCorners, rotateAngle, min, max, cs,
                            style.rounding, style, drawOrder)
        ELSE IF IsSolid(style)
        THEN FillRect_NoRound_SC(ShapeBuffer(D, style, drawOrder, FALSE),
                                 rotateAngle, min, max, cs, style, drawOrder)
        ELSE IF style.color.gradientType \in {"Horizontal", "Vertical"}
        THEN FillRect_NoRound_VerHorGra(ShapeBuffer(D, style, drawOrder, FALSE),
                                        rotateAngle, min, max,
                                        cs, IF horizontal THEN ce ELSE cs,
                                        ce, IF horizontal THEN cs ELSE ce, style, drawOrder)
        ELSE IF style.color.gradientType \in {"Radial", "RadialCorner"}
        THEN FillRect_NoRound_RadialGra(ShapeBuffer(D, style, drawOrder, TRUE),
                                        rotateAngle, min, max, cs, ce, style, drawOrder)
        ELSE D

----------------------------------------------------------------------------
(* Triangles. *)

\* FillTriData(v, hasCenter, calculateUV, p3, p2, p1).
FillTriData(hasCenter, calculateUV, p3, p2, p1) ==
    LET center == Pos((p1.x + p2.x + p3.x) \div 3, (p1.y + p2.y + p3.y) \div 3)
        ps == (IF hasCenter THEN <<center>> ELSE <<>>)
              \o <<Pos(p3.x, p3.y), Pos(p2.x, p2.y), Pos(p1.x, p1.y)>>
        bb == GetTriangleBoundingBox(p1, p2, p3)
    IN  [k \in 1..Len(ps) |->
            Vtx(ps[k], IF calculateUV THEN RemapUV(ps[k], bb) ELSE UVc(0, 0), NoCol)]

\* FillTri_NoRound_SC and FillTri_NoRound_VerHorGra: they differ in the
\* three corner colours only.
FillTri_NoRound(g, rotateAngle, p3, p2, p1, cols, opts, drawOrder) ==
    LET startIndex == VSize(g.d, g.ref)
        v == WithCols(FillTriData(FALSE, TRUE, p3, p2, p1), cols)
    IN  OutlineOrAA(
            RotateVertices(
                IF opts.isFilled
                THEN PushIdx(PushVerts(g.d, g.ref, v), g.ref,
                             <<startIndex, startIndex + 1, startIndex + 2>>)
                ELSE ConvexExtrudeVertices(PushVerts(g.d, g.ref, v), g.ref, startIndex,
                                           startIndex + 2, opts.thickness.start, FALSE),
                g.ref, startIndex, IF opts.isFilled THEN startIndex + 2 ELSE startIndex + 5,
                rotateAngle),
            g.ref, opts, IF opts.isFilled THEN 3 ELSE 6, FALSE, drawOrder)

FillTri_NoRound_SC(g, rotateAngle, p3, p2, p1, color, opts, drawOrder) ==
    FillTri_NoRound(g, rotateAngle, p3, p2, p1,
                    <<Col(color), Col(color), Col(color)>>, opts, drawOrder)

FillTri_NoRound_VerHorGra(g, rotateAngle, p3, p2, p1, colorLeft, colorRight, colorTop, opts, drawOrder) ==
    FillTri_NoRound(g, rotateAngle, p3, p2, p1,
                    <<Col(colorTop), Col(colorRight), Col(colorLeft)>>, opts, drawOrder)

FillTri_NoRound_RadialGra(g, rotateAngle, p3, p2, p1, startcolor, endColor, opts, drawOrder) ==
    LET v == FillTriData(TRUE, TRUE, p3, p2, p1)
        startIndex == VSize(g.d, g.ref)
    IN  OutlineOrAA(
            RotateVertices(
                IF opts.isFilled
                THEN ConvexFillVertices(PushVerts(g.d, g.ref, v), g.ref,
                                        startIndex, startIndex + 3, FALSE)
                ELSE ConvexExtrudeVertices(PushVerts(g.d, g.ref, Tail(v)), g.ref, startIndex,
                                           startIndex + 2, opts.thickness.start, FALSE),
                g.ref, IF opts.isFilled THEN startIndex + 1 ELSE startIndex,
                IF opts.isFilled THEN startIndex + 3 ELSE startIndex + 5, rotateAngle),
            g.ref, opts, IF opts.isFilled THEN 3 ELSE 6, FALSE, drawOrder)

\* Drawer::DrawTriangle for style.rounding = 0.  A rounded triangle is not
\* drawn in this model: the number of its arc points is decided by
\* Math::GetAngleFromCenter and Math::GetAngleBetween.
DrawTriangleOn(D, top, right, left, style, rotateAngle, drawOrder) ==
    LET cs == style.color.start
        ce == style.color.end
        horizontal == style.color.gradientType = "Horizontal"
    IN  IF IsSolid(style)
        THEN FillTri_NoRound_SC(ShapeBuffer(D, style, drawOrder, FALSE),
                                rotateAngle, top, right, left, cs, style, drawOrder)
        ELSE IF style.color.gradientType \in {"Horizontal", "Vertical"}
        THEN FillTri_NoRound_VerHorGra(ShapeBuffer(D, style, drawOrder, FALSE),
                                       rotateAngle, top, right, left,
                                       IF horizontal THEN cs ELSE ce, ce,
                                       IF horizontal THEN ce ELSE cs, style, drawOrder)
        ELSE IF style.color.gradientType \in {"Radial", "RadialCorner"}
        THEN FillTri_NoRound_RadialGra(ShapeBuffer(D, style, drawOrder, TRUE),
                                       rotateAngle, top, right, left, cs, ce, style, drawOrder)
        ELSE D

----------------------------------------------------------------------------
(* N-gons, circles and convex polygons.  Each has the three fill functions *)
(* _SC, _VerHorGra and _RadialGra, which differ in the vertex colours; the *)
(* model has one operator per shape with the function as a mode.           *)

\* Math::GetPointOnCircle(center, radius, angle), angle a multiple of 30.
GetPointOnCircle(center, radius, angle) ==
    Pos(center.x + (radius * CosK(angle)) \div 1000,
        center.y + (radius * SinK(angle)) \div 1000)

\* The colour a fill function gives a vertex: the solid colour, the lerp by
\* the vertex's u or v, or (radial) nothing.
ShapeCol(mode, opts, uv) ==
    CASE mode = "SC" -> Col(opts.color.start)
      [] mode = "Hor" -> LerpCol(Col(opts.color.start), Col(opts.color.end), uv.un, uv.ud)
      [] mode = "Ver" -> LerpCol(Col(opts.color.start), Col(opts.color.end), uv.vn, uv.vd)
      [] mode = "Radial" -> NoCol

\* The fill function DrawNGon, DrawCircle and DrawConvex dispatch to.
FillMode(style) ==
    IF IsSolid(style) THEN "SC"
    ELSE CASE style.color.gradientType = "Horizontal" -> "Hor"
           [] style.color.gradientType = "Vertical" -> "Ver"
           [] style.color.gradientType \in {"Radial", "RadialCorner"} -> "Radial"

CircleBB(center, radius) ==
    [minx |-> center.x - radius, maxx |-> center.x + radius,
     miny |-> center.y - radius, maxy |-> center.y + radius]

CircleVtx(center, radius, angle) ==
    LET p == GetPointOnCircle(center, radius, angle)
    IN  Vtx(p, RemapUV(p, CircleBB(center, radius)), NoCol)

\* The test "i < 360.0f" of the loop of FillNGonData before its k-th
\* iteration (k = 0, 1, ..), where i = k * (360 / n): times n it is
\* "k * 360 < 360 * n" for n > 0 and "k * 360 > 360 * n" for n < 0; for
\* n = 0 the increment is +infinity, so only i = 0 passes the test.
NGonLoopTest(n, k) ==
    CASE n = 0 -> k = 0
      [] n > 0 -> k * 360 < 360 * n
      [] n < 0 -> k * 360 > 360 * n

\* The loop of FillNGonData from its k-th iteration on, for n >= 0.
RECURSIVE NGonLoop(_, _, _, _)
NGonLoop(center, radius, n, k) ==
    IF ~NGonLoopTest(n, k) THEN <<>>
    ELSE <<CircleVtx(center, radius, IF n = 0 THEN 0 ELSE (k * 360) \div n)>>
         \o (IF k + 1 = n THEN <<>> ELSE NGonLoop(center, radius, n, k + 1))

\* FillNGonData(vertArray, hasCenter, center, radius, n) for n >= 0.
FillNGonData(hasCenter, center, radius, n) ==
    (IF hasCenter
     THEN <<Vtx(Pos(center.x, center.y),
                RemapUV(center, CircleBB(center, radius)), NoCol)>>
     ELSE <<>>) \o NGonLoop(center, radius, n, 0)

\* FillNGon_SC, FillNGon_VerHorGra, FillNGon_RadialGra once FillNGonData
\* has filled v.
FillNGonVerts(g, v, rotateAngle, n, opts, drawOrder) ==
    LET startIndex == VSize(g.d, g.ref)
    IN  OutlineOrAA(
            RotateVertices(
                IF opts.isFilled
                THEN ConvexFillVertices(PushVerts(g.d, g.ref, v), g.ref,
                                        startIndex, startIndex + n, FALSE)
                ELSE ConvexExtrudeVertices(PushVerts(g.d, g.ref, v), g.ref, startIndex,
                                           startIndex + n - 1, opts.thickness.start, FALSE),
                g.ref, IF opts.isFilled THEN startIndex + 1 ELSE startIndex,
                IF opts.isFilled THEN startIndex + n ELSE startIndex + n * 2 - 1, rotateAngle),
            g.ref, opts, IF opts.isFilled THEN n ELSE n * 2, FALSE, drawOrder)

\* The vertices v0 with the colours of the fill function mode.
Coloured(v0, mode, opts) ==
    [k \in 1..Len(v0) |-> [v0[k] EXCEPT !.col = ShapeCol(mode, opts, v0[k].uv)]]

\* FillNGon_SC, FillNGon_VerHorGra, FillNGon_RadialGra.
FillNGon(g, mode, rotateAngle, center, radius, n, opts, drawOrder) ==
    FillNGonVerts(g, Coloured(FillNGonData(opts.isFilled, center, radius, n), mode, opts),
                  rotateAngle, n, opts, drawOrder)

\* Drawer::DrawNGon.
DrawNGonOn(D, center, radius, n, style, rotateAngle, drawOrder) ==
    FillNGon(ShapeBuffer(D, style, drawOrder, FillMode(style) = "Radial"),
             FillMode(style), rotateAngle, center, radius, n, style, drawOrder)

\* The loop "for (i = startAngle; i < end; i += angleIncrease)" of
\* FillCircleData from its k-th iteration on, with i = startAngle +
\* k * (360 / segments) and both sides of "i < end" multiplied by segments.
CircleLoopTest(segments, startAngle, endTimesSegments, k) ==
    startAngle * segments + 360 * k < endTimesSegments

RECURSIVE CircleLoop(_, _, _, _, _, _)
CircleLoop(center, radius, segments, startAngle, endTimesSegments, k) ==
    IF CircleLoopTest(segments, startAngle, endTimesSegments, k)
    THEN <<CircleVtx(center, radius, startAngle + (360 * k) \div segments)>>
         \o CircleLoop(center, radius, segments, startAngle, endTimesSegments, k + 1)
    ELSE <<>>

\* What FillCircleData makes of its arguments before its loop: the angles
\* brought to 0..360 (equal ones become 360 and 0), the segments clamped, and
\* the loop's bound "end" times segments.
CircleLoopRange(segments0, startAngle0, endAngle0) ==
    LET s1 == IF startAngle0 < 0 THEN startAngle0 + 360 ELSE startAngle0
        e1 == IF endAngle0 < 0 THEN endAngle0 + 360 ELSE endAngle0
        startAngle == IF e1 = s1 THEN 360 ELSE s1
        endAngle == IF e1 = s1 THEN 0 ELSE e1
        segments == Clamp(segments0, 6, 180)
    IN  [segments |-> segments, startAngle |-> startAngle,
         endTimesSegments |-> IF AbsI(startAngle - endAngle) = 360
                              THEN endAngle * segments
                              ELSE endAngle * segments + 360]

\* FillCircleData(vertices, hasCenter, center, radius, segments, startAngle,
\* endAngle).
FillCircleData(hasCenter, center, radius, segments0, startAngle0, endAngle0) ==
    LET r == CircleLoopRange(segments0, startAngle0, endAngle0)
    IN  (IF hasCenter
         THEN <<Vtx(Pos(center.x, center.y),
                    RemapUV(center, CircleBB(center, radius)), NoCol)>>
         ELSE <<>>)
        \o CircleLoop(center, radius, r.segments, r.startAngle, r.endTimesSegments, 0)

\* How FillCircle_SC, FillCircle_VerHorGra and FillCircle_RadialGra end,
\* with the n vertices of the shape from startIndex on: the outline when it
\* has a thickness, else the fringe when anti-aliasing is enabled.  A full
\* circle goes to DrawOutline; a sector, and an arc stroked on both sides,
\* to DrawOutlineAroundShape with its boundary in order.
CircleOutline(D, buf, n, startIndex, mode, opts, isFullCircle, drawOrder) ==
    LET outline == opts.outlineOptions.thickness # 0
        filled == opts.isFilled
        both == opts.outlineOptions.drawDirection = "Both"
        around == IF outline THEN ~isFullCircle /\ (filled \/ both)
                  ELSE IF filled THEN ~isFullCircle ELSE both
        o == IF outline \/ (filled /\ isFullCircle) THEN opts
             ELSE [opts EXCEPT !.outlineOptions = FromStyle(opts, "Both")]
        forward == SeqOf(0, n - 1, LAMBDA i : startIndex + i)
        \* the sector's boundary: centre and arc, back to front in _RadialGra
        sector == IF outline /\ mode = "Radial" THEN Reverse(forward) ELSE forward
        \* the stroked arc's boundary: inner side, then outer side backwards
        bothSides == forward \o Reverse(SeqOf(n, 2 * n - 1, LAMBDA i : startIndex + i))
    IN  IF ~outline /\ ~opts.aaEnabled THEN D
        ELSE IF around
        THEN DrawOutlineAroundShape(D, buf, o, IF filled THEN sector ELSE bothSides,
                                    IF filled THEN n ELSE n * 2,
                                    o.outlineOptions.thickness, drawOrder,
                                    IF outline THEN "Normal" ELSE "AA")
        ELSE DrawOutline(D, buf, o, IF filled THEN n - 1 ELSE n * 2, ~isFullCircle,
                         drawOrder, IF outline THEN "Normal" ELSE "AA", FALSE)

\* FillCircle_SC, FillCircle_VerHorGra, FillCircle_RadialGra once
\* FillCircleData has filled v.
FillCircleVerts(g, v, mode, rotateAngle, isFullCircle, opts, drawOrder) ==
    LET startIndex == VSize(g.d, g.ref)
        totalSize == Len(v) - 1
    IN  CircleOutline(
            RotateVertices(
                IF opts.isFilled
                THEN ConvexFillVertices(PushVerts(g.d, g.ref, v), g.ref, startIndex,
                                        startIndex + totalSize, ~isFullCircle)
                ELSE ConvexExtrudeVertices(PushVerts(g.d, g.ref, v), g.ref, startIndex,
                                           startIndex + totalSize, opts.thickness.start,
                                           ~isFullCircle),
                g.ref, IF opts.isFilled THEN startIndex + 1 ELSE startIndex,
                IF opts.isFilled THEN startIndex + totalSize
                ELSE startIndex + totalSize * 2 + 1, rotateAngle),
            g.ref, Len(v), startIndex, mode, opts, isFullCircle, drawOrder)

\* The colours of the circle's vertices v0: _RadialGra gives the centre the
\* start colour and the boundary the end colour.
CircleColoured(v0, mode, opts) ==
    [k \in 1..Len(v0) |->
        [v0[k] EXCEPT !.col =
            IF mode = "Radial"
            THEN Col(IF k = 1 THEN opts.color.start ELSE opts.color.end)
            ELSE ShapeCol(mode, opts, v0[k].uv)]]

\* FillCircle_SC, FillCircle_VerHorGra, FillCircle_RadialGra.
FillCircle(g, mode, rotateAngle, center, radius, segments, startAngle, endAngle, opts, drawOrder) ==
    FillCircleVerts(g,
                    CircleColoured(FillCircleData(opts.isFilled, center, radius, segments,
                                                  startAngle, endAngle), mode, opts),
                    mode, rotateAngle, AbsI(endAngle - startAngle) = 360, opts, drawOrder)

\* Drawer::DrawCircle.
DrawCircleOn(D, center, radius, style, segments, rotateAngle, startAngle, endAngle, drawOrder) ==
    FillCircle(ShapeBuffer(D, style, drawOrder, FillMode(style) = "Radial"),
               FillMode(style), rotateAngle, center, radius, segments, startAngle,
               IF startAngle = endAngle THEN startAngle + 360 ELSE endAngle, style, drawOrder)

\* FillConvex_SC, FillConvex_VerHorGra, FillConvex_RadialGra once the
\* centre vertex c and the vertices v of the points are computed.
FillConvexVerts(g, c, v, rotateAngle, size, opts, drawOrder) ==
    LET startIndex == VSize(g.d, g.ref)
    IN  OutlineOrAA(
            RotateVertices(
                IF opts.isFilled
                THEN ConvexFillVertices(PushVerts(g.d, g.ref, <<c>> \o v), g.ref,
                                        startIndex, startIndex + size, FALSE)
                ELSE ConvexExtrudeVertices(PushVerts(g.d, g.ref, v), g.ref, startIndex,
                                           startIndex + size - 1, opts.thickness.start, FALSE),
                g.ref, IF opts.isFilled THEN startIndex + 1 ELSE startIndex,
                IF opts.isFilled THEN startIndex + size ELSE startIndex + size * 2 - 1,
                rotateAngle),
            g.ref, opts, IF opts.isFilled THEN size ELSE size * 2, FALSE, drawOrder)

\* FillConvex_SC, FillConvex_VerHorGra, FillConvex_RadialGra.
FillConvex(g, mode, rotateAngle, points, size, center, opts, drawOrder) ==
    LET bb == GetConvexBoundingBox(SubSeq(points, 1, size))
        cuv == RemapUV(center, bb)
    IN  FillConvexVerts(
            g,
            Vtx(Pos(center.x, center.y), cuv,
                IF mode \in {"Hor", "Ver"}
                THEN LerpCol(Col(opts.color.start), Col(opts.color.end), 1, 2)
                ELSE ShapeCol(mode, opts, cuv)),
            [i \in 1..size |->
                Vtx(Pos(points[i].x, points[i].y), RemapUV(points[i], bb),
                    ShapeCol(mode, opts, RemapUV(points[i], bb)))],
            rotateAngle, size, opts, drawOrder)

\* Math::GetPolygonCentroidFast(points, size): the mean of the points.
RECURSIVE SumX(_)
SumX(ps) == IF ps = <<>> THEN 0 ELSE Head(ps).x + SumX(Tail(ps))
RECURSIVE SumY(_)
SumY(ps) == IF ps = <<>> THEN 0 ELSE Head(ps).y + SumY(Tail(ps))
GetPolygonCentroidFast(points, size) ==
    [x |-> SumX(SubSeq(points, 1, size)) \div size, y |-> SumY(SubSeq(points, 1, size)) \div size]

\* The test DrawConvex rejects a call by.
ConvexTooSmall(size) == size < 3

\* Drawer::DrawConvex.
DrawConvexOn(D, cbSet, points, size, style, rotateAngle, drawOrder) ==
    IF ConvexTooSmall(size) THEN ReportError(D, cbSet)
    ELSE FillConvex(ShapeBuffer(D, style, drawOrder, FillMode(style) = "Radial"),
                    FillMode(style), rotateAngle, points, size,
                    GetPolygonCentroidFast(points, size), style, drawOrder)

----------------------------------------------------------------------------
(* Polylines.  A polyline is given by the signed turn angle (whole degrees, *)
(* as Math::GetAngleBetweenDirs returns it) at each of its interior        *)
(* points; two consecutive segments are parallel (Math::AreLinesParallel)  *)
(* when the turn is 0.  A line vertex is the corner c (0..3) of segment    *)
(* seg; a joint changes how it was obtained, not its name.                 *)

LinePos(seg, c) == [x |-> seg, y |-> c, how |-> "corner", by |-> 0]

\* CalculateLine(line, p1, p2, style, LineCapDirection::None) for segment
\* seg.  Line caps are not drawn in this model: which parabola points are
\* upper and which lower is decided by Math::SampleParabola.
CalculateLine(seg, style) ==
    [verts |-> <<Vtx(LinePos(seg, 0), UVunknown, Col(style.color.start)),
                 Vtx(LinePos(seg, 1), UVunknown, Col(style.color.end)),
                 Vtx(LinePos(seg, 2), UVunknown, Col(style.color.end)),
                 Vtx(LinePos(seg, 3), UVunknown, Col(style.color.start))>>,
     upper |-> <<0, 1>>, lower |-> <<3, 2>>,
     tris |-> << <<0, 1, 3>>, <<1, 2, 3>> >>]

\* The joint selection with the 15 degree threshold inclusive.
UsedJointTypeUpTo15(jointType, angle, miterLimit, rounding) ==
    IF jointType # "VtxAverage"
    THEN IF AbsI(angle) <= 15 THEN "VtxAverage"
         ELSE LET fallback == IF jointType = "Miter" /\ AbsI(angle) > miterLimit
                              THEN "BevelRound" ELSE jointType
              IN  IF jointType = "BevelRound" /\ rounding = 0 THEN "Bevel" ELSE fallback
    ELSE jointType

\* The joint type DrawLines hands to JoinLines for a non-parallel joint.
UsedJointType(jointType, angle, miterLimit, rounding) ==
    IF jointType # "VtxAverage"
    THEN IF AbsI(angle) < 15 THEN "VtxAverage"
         ELSE LET fallback == IF jointType = "Miter" /\ AbsI(angle) > miterLimit
                              THEN "BevelRound" ELSE jointType
              IN  IF jointType = "BevelRound" /\ rounding = 0 THEN "Bevel" ELSE fallback
    ELSE jointType

MovedTo(p, how) == [p EXCEPT !.how = how]
SetPos(verts, i, p) == [verts EXCEPT ![i + 1].pos = p]

\* The arc points of a BevelRound joint: "for (k = startAngle + increase;
\* k < endAngle; k += increase)" with increase = Remap(rounding, 0, 1, 45, 6)
\* and endAngle - startAngle the turn of the joint; both sides times 100.
RoundJointSteps(angle, rounding) ==
    {j \in 1..AbsI(angle) : j * (4500 - 39 * rounding) < AbsI(angle) * 100}

\* JoinLines(line1, line2, opts, jointType, mergeUpperVertices); ang1Greater
\* is the outcome of its comparison "ang1 > ang2".
JoinLines(line1, line2, opts, jointType, mergeUpperVertices, angle, ang1Greater) ==
    LET addUpperLowerIndices == opts.aaEnabled \/ opts.outlineOptions.thickness # 0
        i0 == IF mergeUpperVertices THEN 0 ELSE 3
        i1 == IF mergeUpperVertices THEN 1 ELSE 2
        i2 == IF mergeUpperVertices THEN 2 ELSE 1
        i3 == IF mergeUpperVertices THEN 3 ELSE 0
        dropBoth == [line2 EXCEPT !.upper = IF addUpperLowerIndices THEN EraseFirst(@, 0) ELSE @,
                                  !.lower = IF addUpperLowerIndices THEN EraseFirst(@, 3) ELSE @]
        dropOne == IF ~addUpperLowerIndices THEN line2
                   ELSE IF mergeUpperVertices THEN [line2 EXCEPT !.upper = EraseFirst(@, 0)]
                   ELSE [line2 EXCEPT !.lower = EraseFirst(@, 3)]
        both(how) ==
            LET up == MovedTo(line1.verts[2].pos, how)
                lo == MovedTo(line1.verts[3].pos, how)
            IN  [l1 |-> [line1 EXCEPT !.verts = SetPos(SetPos(@, 1, up), 2, lo)],
                 l2 |-> [dropBoth EXCEPT !.verts = SetPos(SetPos(@, 0, up), 3, lo)]]
        x == MovedTo(line1.verts[i1 + 1].pos, "intersection")
        vLowIndex == Len(line1.verts)
        vLow == Vtx(line2.verts[i3 + 1].pos, UVunknown, Col(opts.color.start))
        arcN == Cardinality(RoundJointSteps(angle, opts.rounding))
        arc == [j \in 1..arcN |->
                  Vtx(ArcPoint(line1.verts[i2 + 1].pos, j), UVunknown, Col(opts.color.start))]
        parabolaStart == vLowIndex + 1
        sizeAfter == vLowIndex + 1 + arcN
        added == SeqOf(parabolaStart, sizeAfter - 1, LAMBDA i : i)
        toAdd == IF ~addUpperLowerIndices THEN <<>>
                 ELSE IF ang1Greater THEN added ELSE Reverse(added)
    IN  CASE jointType = "VtxAverage" -> both("average")
          [] jointType = "Miter" -> both("intersection")
          [] jointType = "Bevel" ->
               [l1 |-> [line1 EXCEPT !.verts = Append(SetPos(@, i1, x), vLow),
                                     !.tris = Append(@, <<i1, i2, vLowIndex>>)],
                l2 |-> [dropOne EXCEPT !.verts = SetPos(@, i0, x)]]
          [] jointType = "BevelRound" ->
               [l1 |-> [line1 EXCEPT
                          !.verts = Append(SetPos(@, i1, x), vLow) \o arc,
                          !.lower = IF mergeUpperVertices THEN @ \o toAdd ELSE @,
                          !.upper = IF mergeUpperVertices THEN @ ELSE @ \o toAdd,
                          !.tris = @ \o << <<i1, i2, IF ang1Greater THEN parabolaStart ELSE sizeAfter - 1>>,
                                           <<i1, vLowIndex, IF ang1Greater THEN sizeAfter - 1 ELSE parabolaStart>> >>
                                     \o SeqOf(parabolaStart, sizeAfter - 2, LAMBDA i : <<i1, i, i + 1>>)],
                l2 |-> [dropOne EXCEPT !.verts = SetPos(@, i0, x)]]

\* The joint loop of DrawLines without the merge of parallel lines: the
\* second line keeps its first upper and lower index.
JoinedAtKeepingIndices(lines, i, angle, j) ==
    IF angle # 0
    THEN [lines EXCEPT ![i] = j.l1, ![i + 1] = j.l2]
    ELSE lines

\* The lines after joint i: joined as j when they turn there, else the
\* second one loses its first upper and lower index.
JoinedAt(lines, i, angle, j) ==
    IF angle # 0
    THEN [lines EXCEPT ![i] = j.l1, ![i + 1] = j.l2]
    ELSE [lines EXCEPT ![i + 1] = [@ EXCEPT !.upper = EraseFirst(@, 0),
                                            !.lower = EraseFirst(@, 3)]]

\* The joint loop of DrawLines from joint i (1-based) on.
RECURSIVE JoinAll(_, _, _, _, _, _, _)
JoinAll(lines, i, angles, style, jointType, miterLimit, ang1Greater) ==
    IF i > Len(lines) - 1 THEN lines
    ELSE JoinAll(JoinedAt(lines, i, angles[i],
                          JoinLines(lines[i], lines[i + 1], style,
                                    UsedJointType(jointType, angles[i], miterLimit, style.rounding),
                                    angles[i] < 0, angles[i], ang1Greater)),
                 i + 1, angles, style, jointType, miterLimit, ang1Greater)

\* The lines of DrawLines after the joint loop.
JoinedLines(count, angles, style, jointType, miterLimit, ang1Greater) ==
    JoinAll([i \in 1..(count - 1) |-> CalculateLine(i - 1, style)],
            1, angles, style, jointType, miterLimit, ang1Greater)

\* The sizes and the boundary index lists of a line.
LineLog(l) == [nverts |-> Len(l.verts), ntris |-> Len(l.tris),
               upper |-> l.upper, lower |-> l.lower]

\* What the joint loop decided at each joint, and the two lines of the
\* joint as the loop left them (lines are the joined lines).
JointLog(lines, angles, jointType, miterLimit, rounding) ==
    [i \in 1..Len(angles) |->
        [angle |-> angles[i], parallel |-> angles[i] = 0, requested |-> jointType,
         miterLimit |-> miterLimit, rounding |-> rounding,
         line1 |-> LineLog(lines[i]), line2 |-> LineLog(lines[i + 1]),
         used |-> IF angles[i] = 0 THEN "None"
                  ELSE UsedJointType(jointType, angles[i], miterLimit, rounding)]]

\* The test of DrawLines with the bound one too low: two points pass.
LinesTooFewBelow2(count) == count < 2

\* DrawLines rejects a point array of fewer than three points.
LinesTooFew(count) == count < 3

\* The flush of DrawLines taking every line for a bare quad: only the first
\* two triangles of a line reach the index array.
RECURSIVE FlushLinesQuadsOnly(_, _, _, _)
FlushLinesQuadsOnly(D, ref, lines, i) ==
    IF i > Len(lines) THEN D
    ELSE FlushLinesQuadsOnly(
             PushIdx(PushVerts(D, ref, lines[i].verts), ref,
                     Flatten([t \in 1..2 |->
                                [c \in 1..3 |-> VSize(D, ref) + lines[i].tris[t][c]]])),
             ref, lines, i + 1)

\* The vertices and triangles of the lines, flushed line by line.
RECURSIVE FlushLines(_, _, _, _)
FlushLines(D, ref, lines, i) ==
    IF i > Len(lines) THEN D
    ELSE FlushLines(PushIdx(PushVerts(D, ref, lines[i].verts), ref,
                            Flatten([t \in 1..Len(lines[i].tris) |->
                                       [c \in 1..3 |-> VSize(D, ref) + lines[i].tris[t][c]]])),
                    ref, lines, i + 1)

\* totalUpperIndices / totalLowerIndices of DrawLines (which = "upper" or
\* "lower"), from drawBufferStartForOutlines = start for line i on.
RECURSIVE TotalIndices(_, _, _, _)
TotalIndices(lines, i, start, which) ==
    IF i > Len(lines) THEN <<>>
    ELSE [j \in 1..Len(lines[i][which]) |-> start + lines[i][which][j]]
         \o TotalIndices(lines, i + 1, start + Len(lines[i].verts), which)

\* How DrawLines ends: the outline around the lower indices and the upper
\* ones backwards when it has a thickness, else the fringe when
\* anti-aliasing is enabled.
LinesOutline(D, ref, style, indicesOrder, drawOrder) ==
    LET outline == style.outlineOptions.thickness # 0
        o == IF outline THEN style
             ELSE [style EXCEPT !.outlineOptions = FromStyle(style, "Both")]
    IN  IF ~outline /\ ~style.aaEnabled THEN D
        ELSE DrawOutlineAroundShape(D, ref, o, indicesOrder, Len(indicesOrder),
                                    o.outlineOptions.thickness, drawOrder,
                                    IF outline THEN "Normal" ELSE "AA")

\* DrawLines once its lines are calculated and joined: they are flushed to
\* the buffer dest and outlined.
DrawLinesJoined(dest, lines, style, drawOrder) ==
    LinesOutline(FlushLines(dest.d, dest.ref, lines, 1), dest.ref, style,
                 TotalIndices(lines, 1, VSize(dest.d, dest.ref), "lower")
                 \o Reverse(TotalIndices(lines, 1, VSize(dest.d, dest.ref), "upper")),
                 drawOrder)

\* DrawLines for at least three points, style being the caller's with
\* isFilled set.
DrawLinesFilled(D, count, angles, style, jointType, drawOrder, miterLimit, ang1Greater) ==
    DrawLinesJoined(ShapeBuffer(D, style, drawOrder, ~IsSolid(style)),
                    JoinedLines(count, angles, style, jointType, miterLimit, ang1Greater),
                    style, drawOrder)

\* Drawer::DrawLines(points, count, opts, LineCapDirection::None, jointType,
\* drawOrder), the points turning by angles[i] at interior point i.
DrawLinesOn(D, cbSet, count, angles, opts, jointType, drawOrder, miterLimit, ang1Greater) ==
    IF LinesTooFew(count) THEN ReportError(D, cbSet)
    ELSE DrawLinesFilled(D, count, angles, [opts EXCEPT !.isFilled = TRUE], jointType,
                         drawOrder, miterLimit, ang1Greater)

----------------------------------------------------------------------------
(* Single lines, images, Bezier curves. *)

\* A corner of a single line: the end point p moved by half the thickness
\* along (side "up") or against (side "down") the normal of the line.
LineCorner(p, side, t) == [x |-> p.x, y |-> p.y, how |-> side, by |-> t]

\* CalculateSimpleLine with the two corners at p2 exchanged.
CalculateSimpleLineCrossed(p1, p2, style) ==
    <<LineCorner(p1, "up", style.thickness.start), LineCorner(p2, "down", style.thickness.end),
      LineCorner(p2, "up", style.thickness.end), LineCorner(p1, "down", style.thickness.start)>>

\* SimpleLine::m_points[0..3] as a sequence.
CalculateSimpleLine(p1, p2, style) ==
    <<LineCorner(p1, "up", style.thickness.start), LineCorner(p2, "up", style.thickness.end),
      LineCorner(p2, "down", style.thickness.end), LineCorner(p1, "down", style.thickness.start)>>

\* DrawSimpleLine that leaves the rectangle override set.
DrawSimpleLineKeepingOverride(D, line, opts, rotateAngle, drawOrder) ==
    DrawRectOn([D EXCEPT !.ro = [on |-> TRUE, p |-> line]],
               line[1], line[3], opts, rotateAngle, drawOrder)

\* DrawSimpleLine(line, style, rotateAngle, drawOrder): DrawRect under the
\* rectangle override.
DrawSimpleLine(D, line, opts, rotateAngle, drawOrder) ==
    [DrawRectOn([D EXCEPT !.ro = [on |-> TRUE, p |-> line]],
                line[1], line[3], opts, rotateAngle, drawOrder)
     EXCEPT !.ro.on = FALSE]

\* Drawer::DrawLine.
DrawLineOn(D, p1, p2, style, cap, rotateAngle, drawOrder) ==
    LET l == CalculateSimpleLine(p1, p2, style)
        s0 == [style EXCEPT !.isFilled = TRUE]
        s1 == IF cap \in {"Left", "Both"}
              THEN [s0 EXCEPT !.onlyRoundTheseCorners = @ \o <<0, 3>>, !.rounding = 100]
              ELSE s0
        s2 == IF cap \in {"Right", "Both"}
              THEN [s1 EXCEPT !.onlyRoundTheseCorners = @ \o <<1, 2>>, !.rounding = 100]
              ELSE s1
    IN  DrawSimpleLine(D, l, s2, rotateAngle, drawOrder)

DrawImageOn(D, textureHandle, pos, size, tint, rotateAngle, drawOrder, uvTL, uvBR) ==
    [DrawRectOn([D EXCEPT !.uvo = [on |-> TRUE, tl |-> uvTL, br |-> uvBR]],
                [x |-> pos.x - size.x \div 2, y |-> pos.y - size.y \div 2],
                [x |-> pos.x + size.x \div 2, y |-> pos.y + size.y \div 2],
                [DefaultStyle EXCEPT !.aaEnabled = FALSE, !.color = SolidColor(tint),
                                     !.isFilled = TRUE, !.textureHandle = textureHandle],
                rotateAngle, drawOrder)
     EXCEPT !.uvo = [on |-> FALSE, tl |-> [x |-> 0, y |-> 0], br |-> [x |-> 1, y |-> 1]]]

\* The step of the sampling loop of DrawBezier in ten-thousandths:
\* Remap(Clamp(segments, 0, 100), 0, 100, 0.15, 0.01).
BezierIncrease(segments) == 1500 - 14 * Clamp(segments, 0, 100)

\* The test "t < 1.0f" of the sampling loop before its j-th iteration.
BezierLoopTest(segments, j) == j * BezierIncrease(segments) < 10000

\* The values t takes in "for (t = 0; t < 1; t += increase)", as multiples
\* of the increase.
BezierSteps(segments) ==
    {j \in 0..100 : BezierLoopTest(segments, j)}

\* points.m_size when DrawBezier calls DrawLines: one point per loop pass,
\* and the end point unless a pass had t within 0.001 of 1.
BezierPointCount(segments) ==
    LET addLast == \A j \in BezierSteps(segments) :
                       ~(10000 - j * BezierIncrease(segments) < 10)
    IN  Cardinality(BezierSteps(segments)) + (IF addLast THEN 1 ELSE 0)

\* DrawBezier(p0..p3, style, LineCapDirection::None, jointType, drawOrder,
\* segments), the sampled points turning by angles[i].
DrawBezierOn(D, cbSet, angles, style, jointType, drawOrder, segments, miterLimit, ang1Greater) ==
    DrawLinesOn(D, cbSet, BezierPointCount(segments), angles, style, jointType, drawOrder,
                miterLimit, ang1Greater)

----------------------------------------------------------------------------
(* Text.  A text is a sequence of glyphs; the glyph " " has no extent.  The *)
(* text caches are disabled (Config.textCachingEnabled and                 *)
(* Config.textCachingSDFEnabled false), wrapping and clipping are off.     *)

GlyphVtx(i, c, col) == Vtx([x |-> i, y |-> c, how |-> "glyph", by |-> 0], UVunknown, col)

\* Utility::GetTextCharacterSize(text): the number of characters.
GetTextCharacterSize(text) == Len(text)

\* The glyph colours with every corner of a glyph at the far end of its
\* gradient step.
GlyphColsFlat(color, isGradient, characterCount, totalCharacterCount, lastMinGrad) ==
    LET currentMax == LerpCol(Col(color.start), Col(color.end),
                              characterCount + 1, totalCharacterCount)
    IN  IF ~isGradient
        THEN <<Col(color.start), Col(color.start), Col(color.start), Col(color.start)>>
        ELSE IF color.gradientType = "Horizontal"
        THEN <<currentMax, currentMax, currentMax, currentMax>>
        ELSE <<Col(color.start), Col(color.start), Col(color.end), Col(color.end)>>

\* The colours drawChar gives v0..v3 of the glyph drawn after characterCount
\* others, lastMinGrad being the right-hand colour of the glyph before it.
GlyphCols(color, isGradient, characterCount, totalCharacterCount, lastMinGrad) ==
    LET currentMax == LerpCol(Col(color.start), Col(color.end),
                              characterCount + 1, totalCharacterCount)
    IN  IF ~isGradient
        THEN <<Col(color.start), Col(color.start), Col(color.start), Col(color.start)>>
        ELSE IF color.gradientType = "Horizontal"
        THEN <<lastMinGrad, currentMax, currentMax, lastMinGrad>>
        ELSE <<Col(color.start), Col(color.start), Col(color.end), Col(color.end)>>

\* Drawer::DrawText: the lambda drawChar for each character from i on; a
\* character without extent returns before characterCount is advanced.
RECURSIVE DrawText(_, _, _, _, _, _, _, _)
DrawText(D, buf, text, i, color, isGradient, characterCount, lastMinGrad) ==
    IF i > Len(text) THEN D
    ELSE IF text[i] = " "
    THEN DrawText(D, buf, text, i + 1, color, isGradient, characterCount, lastMinGrad)
    ELSE DrawText(PushIdx(PushVerts(D, buf,
                                    WithCols([c \in 1..4 |-> GlyphVtx(i, c - 1, NoCol)],
                                             GlyphCols(color, isGradient, characterCount,
                                                       GetTextCharacterSize(text), lastMinGrad))),
                          buf,
                          <<VSize(D, buf), VSize(D, buf) + 1, VSize(D, buf) + 3,
                            VSize(D, buf) + 1, VSize(D, buf) + 2, VSize(D, buf) + 3>>),
                  buf, text, i + 1, color, isGradient, characterCount + 1,
                  IF isGradient /\ color.gradientType = "Horizontal"
                  THEN LerpCol(Col(color.start), Col(color.end),
                               characterCount + 1, GetTextCharacterSize(text))
                  ELSE lastMinGrad)

\* ProcessText(buf, font, text, .., color, spacing, isGradient, ..), g the
\* buffer with the store.
ProcessText(g, text, color, isGradient) ==
    DrawText(g.d, g.ref, text, 1, color, isGradient, 0, Col(color.start))

\* GetSimpleTextBuffer / GetSDFTextBuffer
GetTextBuffer(D, kind, drawOrder, isDropShadow) ==
    GetBuffer(D, kind, [order |-> drawOrder, font |-> "font", shadow |-> isDropShadow])

\* The font test the wrong way round: it stops the calls whose font fits.
WrongFontInverted(wantSDF, fontIsSDF) == IF wantSDF THEN fontIsSDF ELSE ~fontIsSDF

\* The font test of DrawTextSDF (wantSDF) and of DrawTextNormal (~wantSDF).
WrongFont(wantSDF, fontIsSDF) == IF wantSDF THEN ~fontIsSDF ELSE fontIsSDF

\* The drop shadow pass that ends DrawTextSDF and DrawTextNormal.
DropShadowPass(D, kind, text, dropShadow, drawOrder) ==
    IF dropShadow
    THEN ProcessText(GetTextBuffer(D, kind, drawOrder, TRUE), text, SolidColor("black"), FALSE)
    ELSE D

\* DrawTextSDF (wantSDF) and DrawTextNormal (~wantSDF); dropShadow is
\* "dropShadowOffset is not (0, 0)".
DrawTextOn(D, cbSet, wantSDF, text, fontIsSDF, color, dropShadow, drawOrder) ==
    LET kind == IF wantSDF THEN "SDFText" ELSE "SimpleText"
    IN  IF text = <<>> THEN D
        ELSE IF WrongFont(wantSDF, fontIsSDF) THEN ReportError(D, cbSet)
        ELSE DropShadowPass(ProcessText(GetTextBuffer(D, kind, drawOrder, FALSE), text, color,
                                        color.start # color.end),
                            kind, text, dropShadow, drawOrder)

----------------------------------------------------------------------------
(* The GL backend of the example application.  The state of the GL context *)
(* is a record of the values SaveAPIState reads.                           *)

\* A fresh GL context.
GLDefaults ==
    [blend |-> FALSE, cullFace |-> FALSE, depthTest |-> FALSE, stencilTest |-> FALSE,
     scissorTest |-> FALSE, depthMask |-> TRUE, blendEq |-> "FUNC_ADD",
     blendSrcRGB |-> "ONE", blendDstRGB |-> "ZERO",
     blendSrcAlpha |-> "ONE", blendDstAlpha |-> "ZERO", unpackAlignment |-> 4]

\* m_glState = the values glGet returns for the context state s.
SaveAPIState(s) == s

\* RestoreAPIState: the context state s with every value of m_glState set.
RestoreAPIState(s, glState) ==
    [s EXCEPT !.blend = glState.blend, !.depthTest = glState.depthTest,
              !.cullFace = glState.cullFace, !.stencilTest = glState.stencilTest,
              !.scissorTest = glState.scissorTest, !.depthMask = glState.depthMask,
              !.blendEq = glState.blendEq,
              !.blendSrcRGB = glState.blendSrcRGB, !.blendDstRGB = glState.blendDstRGB,
              !.blendSrcAlpha = glState.blendSrcAlpha, !.blendDstAlpha = glState.blendDstAlpha,
              !.unpackAlignment = glState.unpackAlignment]

\* The state StartFrame sets up for drawing.
FrameState(s) ==
    [s EXCEPT !.depthMask = FALSE, !.blend = TRUE, !.blendEq = "FUNC_ADD",
              !.blendSrcRGB = "SRC_ALPHA", !.blendDstRGB = "ONE_MINUS_SRC_ALPHA",
              !.blendSrcAlpha = "ONE", !.blendDstAlpha = "ONE_MINUS_SRC_ALPHA",
              !.cullFace = FALSE, !.depthTest = FALSE, !.stencilTest = FALSE,
              !.scissorTest = TRUE]

\* What the construction of a backend did: cb counts the invocations of
\* Config.errorCallback, nullCalls the ones made while it was empty, created
\* the shader programs linked, thrown is the exception in flight, escaped
\* tells that it left the constructor, vao that the vertex array was made.
NoBuild == [cb |-> 0, nullCalls |-> 0, created |-> 0, thrown |-> "none", escaped |-> FALSE,
            vao |-> FALSE]

\* The backend between frames on a context in state s: state is the
\* context, glState is m_glState, before the state the running frame found;
\* drawn counts the Draw* calls made since StartFrame, vertexBuffer and
\* indexBuffer are the sizes of the buffer the last of them was given;
\* built is the record of the last construction.
Backend(s) ==
    [state |-> s, glState |-> s, before |-> s, inFrame |-> FALSE, skipDraw |-> FALSE,
     fontTextureCreated |-> FALSE, debugCurrentDrawCalls |-> 0,
     debugCurrentTriangleCount |-> 0, debugCurrentVertexCount |-> 0,
     drawn |-> 0, vertexBuffer |-> 0, indexBuffer |-> 0, built |-> NoBuild, op |-> "none"]

----------------------------------------------------------------------------
(* The state machine. *)

Pt(x, y) == [x |-> x, y |-> y]

DefaultUV == [on |-> FALSE, tl |-> Pt(0, 0), br |-> Pt(1, 1)]
NoRectOverride == [on |-> FALSE, p |-> <<Pos(0, 0), Pos(0, 0), Pos(0, 0), Pos(0, 0)>>]

\* No vertex-generation loop is running.
Idle == [fn |-> "idle", n |-> 0, startAngle |-> 0, endAngle |-> 0, k |-> 0, tick |-> 0]

\* The arguments of a public call; a call sets the ones it has.
NoArgs == [style |-> DefaultStyle, rotateAngle |-> 0, drawOrder |-> 0,
           n |-> 0, segments |-> 0, startAngle |-> 0, endAngle |-> 0,
           points |-> <<>>, count |-> 0, jointType |-> "None", angles |-> <<>>,
           text |-> <<>>, fontIsSDF |-> FALSE, shadow |-> FALSE, cap |-> "None",
           color |-> SolidColor("white")]

NoCall == [op |-> "none", args |-> NoArgs, cbSet |-> FALSE, cb |-> 0, req |-> 0, first |-> <<>>,
           rings |-> <<>>, joints |-> <<>>, before |-> NoBuffers, stale |-> FALSE]

\* No text layout call was made.
NoLayout == [op |-> "none"]

Init ==
    /\ bufs = NoBuffers
    /\ errorCallback \in BOOLEAN
    /\ uvOverride = DefaultUV
    /\ rectOverride = NoRectOverride
    /\ calls = 0
    /\ last = NoCall
    /\ loop = Idle
    /\ gl = Backend(GLDefaults)
    /\ layout = NoLayout

\* The drawer state a public call starts from.
Enter == NewD(bufs, uvOverride, rectOverride)

\* What reading and writing through dangling DrawBuffer pointers can leave
\* of the buffers b of a call that started from the buffers b0: the vertices
\* the call added hold anything, here values that differ from one vertex to
\* the next.
Garbled(b, b0) ==
    [k \in Kinds |->
        [i \in 1..Len(b[k]) |->
            [b[k][i] EXCEPT !.verts =
                [n \in 1..Len(@) |->
                    IF i <= Len(b0[k]) /\ n <= Len(b0[k][i].verts) THEN @[n]
                    ELSE Vtx(Indeterminate, UVunknown, [NoCol EXCEPT !.a = n % 2])]]]]

\* The buffers a call that reached the drawer state D can leave: the ones
\* computed, and, when it dereferenced a stale pointer (undefined
\* behaviour), also garbled ones.
Outcomes(D, b0) == IF D.stale THEN {D.bufs, Garbled(D.bufs, b0)} ELSE {D.bufs}

\* A public call op(args) that took the drawer from Enter to D returns.
Return(op, args, D, joints) ==
    /\ bufs' \in Outcomes(D, bufs)
    /\ uvOverride' = D.uvo
    /\ rectOverride' = D.ro
    /\ calls' = calls + 1
    /\ last' = [op |-> op, args |-> args, cbSet |-> errorCallback, cb |-> D.cb,
                req |-> D.req, first |-> D.first, rings |-> D.rings, joints |-> joints, before |-> bufs,
                stale |-> D.stale]
    /\ UNCHANGED <<errorCallback, loop, gl, layout>>

Rotations == {0, 90}
DrawOrders == {0, 1}

\* The styles DrawRect is called with.
RectStyles == {Filled, Stroked, FilledAA, FilledOutlined, StrokedOutlinedBoth, FilledOutlinedBoth,
               StrokedOutlinedAA, FilledHorizontal, FilledVertical, FilledRadial,
               FilledRadialCorner, FilledTextured, FilledRounded, RoundedHorizontal,
               TexturedRadial, TexturedRounded}

DrawRect(style, rotateAngle, drawOrder) ==
    /\ calls < MaxCalls
    /\ Return("DrawRect",
              [NoArgs EXCEPT !.style = style, !.rotateAngle = rotateAngle, !.drawOrder = drawOrder],
              DrawRectOn(Enter, Pt(0, 0), Pt(4000, 2000), style, rotateAngle, drawOrder), <<>>)

DrawTriangle(style, rotateAngle, drawOrder) ==
    /\ calls < MaxCalls
    /\ style.rounding = 0
    /\ Return("DrawTriangle",
              [NoArgs EXCEPT !.style = style, !.rotateAngle = rotateAngle, !.drawOrder = drawOrder],
              DrawTriangleOn(Enter, Pt(3000, 0), Pt(6000, 3000), Pt(0, 3000),
                             style, rotateAngle, drawOrder), <<>>)

\* DrawNGon with a negative n does not return (FillNGonData never leaves its
\* loop; see the step-wise view below), so it is no step of this machine.
DrawNGon(n, style, rotateAngle, drawOrder) ==
    /\ calls < MaxCalls
    /\ n >= 0
    /\ Return("DrawNGon",
              [NoArgs EXCEPT !.style = style, !.rotateAngle = rotateAngle,
                             !.drawOrder = drawOrder, !.n = n],
              DrawNGonOn(Enter, Pt(0, 0), 1000, n, style, rotateAngle, drawOrder), <<>>)

DrawConvex(points, size, style, rotateAngle, drawOrder) ==
    /\ calls < MaxCalls
    /\ Return("DrawConvex",
              [NoArgs EXCEPT !.style = style, !.rotateAngle = rotateAngle,
                             !.drawOrder = drawOrder, !.points = points, !.count = size],
              DrawConvexOn(Enter, errorCallback, points, size, style, rotateAngle, drawOrder), <<>>)

\* The polygons DrawConvex is called with: a quadrilateral, a triangle
\* listed right to left, and two points.
ConvexInputs ==
    {<<Pt(0, 0), Pt(4000, 0), Pt(4000, 2000), Pt(0, 2000)>>,
     <<Pt(5000, 0), Pt(3000, 3000), Pt(4000, 6000)>>,
     <<Pt(0, 0), Pt(4000, 0)>>}

NGonInputs == {0, 2, 4, 6}

DrawCircle(style, segments, rotateAngle, startAngle, endAngle, drawOrder) ==
    /\ calls < MaxCalls
    /\ Return("DrawCircle",
              [NoArgs EXCEPT !.style = style, !.rotateAngle = rotateAngle,
                             !.drawOrder = drawOrder, !.segments = segments,
                             !.startAngle = startAngle, !.endAngle = endAngle],
              DrawCircleOn(Enter, Pt(0, 0), 1000, style, segments, rotateAngle,
                           startAngle, endAngle, drawOrder), <<>>)

\* The <<startAngle, endAngle>> pairs DrawCircle is called with.
CircleAngles == {<<0, 360>>, <<0, 0>>, <<90, 90>>, <<-90, -90>>, <<0, 90>>, <<-90, 90>>}

\* The segment counts DrawCircle is called with (clamped to 6..180).
CircleSegments == {0, 12}

\* Config.miterLimit, in degrees.
MiterLimits == {150}

DrawLines(count, angles, style, jointType, drawOrder, miterLimit, ang1Greater) ==
    /\ calls < MaxCalls
    /\ Return("DrawLines",
              [NoArgs EXCEPT !.style = style, !.drawOrder = drawOrder, !.count = count,
                             !.angles = angles, !.jointType = jointType],
              DrawLinesOn(Enter, errorCallback, count, angles, style, jointType, drawOrder,
                          miterLimit, ang1Greater),
              IF LinesTooFew(count) THEN <<>>
              ELSE JointLog(JoinedLines(count, angles, [style EXCEPT !.isFilled = TRUE],
                                        jointType, miterLimit, ang1Greater),
                            angles, jointType, miterLimit, style.rounding))

\* The polylines DrawLines is called with, as <<count, turn angles>>.
LineInputs ==
    {<<2, <<>>>>, <<3, <<90>>>>, <<3, <<15>>>>, <<3, <<-15>>>>, <<3, <<14>>>>,
     <<3, <<0>>>>, <<4, <<-10, 160>>>>}

JointTypes == {"Miter", "Bevel", "BevelRound", "VtxAverage"}

DrawLine(style, cap, rotateAngle, drawOrder) ==
    /\ calls < MaxCalls
    /\ Return("DrawLine",
              [NoArgs EXCEPT !.style = style, !.rotateAngle = rotateAngle,
                             !.drawOrder = drawOrder, !.cap = cap],
              DrawLineOn(Enter, Pt(0, 1000), Pt(4000, 1000), style, cap, rotateAngle, drawOrder),
              <<>>)

LineCaps == {"None", "Both"}

DrawImage(textureHandle, rotateAngle, drawOrder, uv) ==
    /\ calls < MaxCalls
    /\ Return("DrawImage",
              [NoArgs EXCEPT !.rotateAngle = rotateAngle, !.drawOrder = drawOrder],
              DrawImageOn(Enter, textureHandle, Pt(2000, 1000), Pt(4000, 2000), "white",
                          rotateAngle, drawOrder, uv[1], uv[2]), <<>>)

\* The <<uvTL, uvBR>> pairs DrawImage is called with.
ImageUVs == {<<Pt(0, 0), Pt(1, 1)>>, <<Pt(1, 0), Pt(0, 1)>>}

DrawBezier(angles, style, jointType, drawOrder, segments, miterLimit) ==
    /\ calls < MaxCalls
    /\ Len(angles) = BezierPointCount(segments) - 2
    /\ Return("DrawBezier",
              [NoArgs EXCEPT !.style = style, !.drawOrder = drawOrder, !.segments = segments,
                             !.count = BezierPointCount(segments),
                             !.angles = angles, !.jointType = jointType],
              DrawBezierOn(Enter, errorCallback, angles, style, jointType, drawOrder, segments,
                           miterLimit, TRUE),
              JointLog(JoinedLines(BezierPointCount(segments), angles,
                                   [style EXCEPT !.isFilled = TRUE], jointType, miterLimit, TRUE),
                       angles, jointType, miterLimit, style.rounding))

\* The turns of the curves DrawBezier is called with.
BezierInputs == {[i \in 1..6 |-> IF i < 4 THEN 20 ELSE -10]}

DrawTextSDF(text, fontIsSDF, color, dropShadow, drawOrder) ==
    /\ calls < MaxCalls
    /\ Return("DrawTextSDF",
              [NoArgs EXCEPT !.drawOrder = drawOrder, !.text = text, !.color = color,
                             !.fontIsSDF = fontIsSDF, !.shadow = dropShadow],
              DrawTextOn(Enter, errorCallback, TRUE, text, fontIsSDF, color,
                         dropShadow, drawOrder), <<>>)

DrawTextNormal(text, fontIsSDF, color, dropShadow, drawOrder) ==
    /\ calls < MaxCalls
    /\ Return("DrawTextNormal",
              [NoArgs EXCEPT !.drawOrder = drawOrder, !.text = text, !.color = color,
                             !.fontIsSDF = fontIsSDF, !.shadow = dropShadow],
              DrawTextOn(Enter, errorCallback, FALSE, text, fontIsSDF, color,
                         dropShadow, drawOrder), <<>>)

Texts == {<<>>, <<"a", " ", "b">>, <<"a", "b">>}

\* The colours of the text options.
TextColors == {SolidColor("white"), Gradient("white", "black", "Horizontal"),
               Gradient("white", "black", "Vertical")}

\* The buffer store's per-frame reset.
ResetFrame ==
    /\ calls > 0
    /\ bufs' = NoBuffers
    /\ calls' = 0
    /\ last' = [NoCall EXCEPT !.op = "ResetFrame"]
    /\ UNCHANGED <<errorCallback, uvOverride, rectOverride, loop, gl, layout>>

Next ==
    \/ \E st \in RectStyles, rot \in Rotations, o \in DrawOrders :
          /\ \/ rot = 0 /\ o = 0
             \/ st \in {Filled, FilledVertical, FilledRadial, FilledTextured, TexturedRadial} /\ rot = 0
             \/ st \in {FilledHorizontal, Stroked, FilledRounded, FilledOutlined} /\ o = 0
          /\ DrawRect(st, rot, o)
    \/ \E st \in {Filled, FilledOutlined}, rot \in Rotations :
          /\ st = Filled \/ rot = 0
          /\ DrawTriangle(st, rot, 0)
    \/ \E n \in NGonInputs, st \in {Filled, Stroked}, rot \in Rotations :
          /\ st = Filled \/ n = 4
          /\ rot = 0 \/ n = 4
          /\ DrawNGon(n, st, rot, 0)
    \/ \E ps \in ConvexInputs, st \in {Filled, FilledOutlined}, rot \in Rotations :
          /\ st = Filled \/ Len(ps) = 4
          /\ rot = 0 \/ (st = Filled /\ Len(ps) = 4)
          /\ DrawConvex(ps, Len(ps), st, rot, 0)
    \/ \E a \in CircleAngles, seg \in CircleSegments,
          st \in {Filled, Stroked, FilledAA, FilledOutlined, StrokedOutlined},
          rot \in Rotations :
          /\ rot = 0 \/ (seg = 0 /\ a = <<0, 90>> /\ st \in {Filled, Stroked})
          /\ \/ st = Filled /\ (seg = 0 \/ a = <<0, 360>>)
             \/ st = FilledAA /\ seg = 0 /\ a = <<0, 90>>
             \/ st = Stroked /\ seg = 0 /\ a = <<0, 90>>
             \/ st = FilledOutlined /\ seg = 0 /\ a \in {<<0, 360>>, <<0, 90>>}
             \/ st = StrokedOutlined /\ seg = 0 /\ a \in {<<0, 360>>, <<0, 90>>}
          /\ DrawCircle(st, seg, rot, a[1], a[2], 0)
    \/ \E l \in LineInputs, jt \in JointTypes, ml \in MiterLimits, g \in BOOLEAN,
          st \in {Filled, FilledOutlined, FilledRounded} :
          /\ \/ st = Filled /\ g /\ (l[2] = <<90>> \/ jt = "Miter" \/ (jt = "Bevel" /\ l[2] = <<15>>))
                /\ l[1] # 4
             \/ st = FilledOutlined /\ g /\ jt = "Miter" /\ l[1] = 4
             \/ st = FilledRounded /\ ~g /\ jt = "BevelRound" /\ l[2] = <<90>>
          /\ DrawLines(l[1], l[2], st, jt, 0, ml, g)
    \/ \E cap \in LineCaps : DrawLine(Filled, cap, 0, 0)
    \/ \E uv \in ImageUVs : DrawImage(1, 0, 0, uv)
    \/ \E a \in BezierInputs, ml \in MiterLimits : DrawBezier(a, Filled, "Miter", 0, 0, ml)
    \/ \E t \in Texts, f \in BOOLEAN, col \in TextColors, sh \in BOOLEAN :
          /\ \/ IsSolidGrad(col) /\ t # <<"a", "b">> /\ ((sh /\ ~f) \/ (t # <<>> /\ f))
             \/ col.gradientType = "Horizontal" /\ ~IsSolidGrad(col) /\ t = <<"a", "b">> /\ f /\ ~sh
          /\ DrawTextSDF(t, f, col, sh, 0)
    \/ \E t \in Texts, f \in BOOLEAN, col \in TextColors, sh \in BOOLEAN :
          /\ \/ IsSolidGrad(col) /\ t # <<"a", "b">> /\ ((sh /\ f) \/ (t # <<>> /\ ~f))
             \/ ~IsSolidGrad(col) /\ t \in {<<"a", "b">>, <<"a", " ", "b">>} /\ ~f /\ ~sh
                /\ (col.gradientType = "Horizontal" \/ t = <<"a", "b">>)
          /\ DrawTextNormal(t, f, col, sh, 0)
    \/ ResetFrame

Spec == Init /\ [][Next]_vars

----------------------------------------------------------------------------
(* The vertex-generation loops, one iteration at a time. A call enters its
   loop, the loop runs iteration by iteration on the tests the operators
   above use, and leaving the loop returns to idle: what follows the loop in
   the call is straight-line code and loops over the vertices just made. *)

NGonCounts == -2..8
SegmentCounts == {-5, 0, 12, 100, 200}
ArcAngles == {<<0, 360>>, <<0, 0>>, <<-90, -90>>, <<0, 90>>, <<90, 0>>}

\* DrawNGon reaches the loop of FillNGonData.
BeginNGon(n) ==
    /\ loop.fn = "idle"
    /\ loop' = [Idle EXCEPT !.fn = "FillNGonData", !.n = n]
    /\ UNCHANGED <<bufs, errorCallback, uvOverride, rectOverride, calls, last, gl, layout>>

\* One evaluation of "i < 360.0f" and, when it holds, one iteration: loop.k
\* is count, and the iteration returns when count reaches n. For n < 0 the
\* float i moves away from 360 until adding the increment no longer changes
\* it: the model stops telling iterations apart at MaxRunaway and keeps the
\* parity of the vertices pushed.
StepNGon ==
    /\ loop.fn = "FillNGonData"
    /\ loop' = IF ~NGonLoopTest(loop.n, loop.k) \/ loop.k + 1 = loop.n
               THEN Idle
               ELSE [loop EXCEPT !.k = IF loop.n < 0 THEN Min2(@ + 1, MaxRunaway) ELSE @ + 1,
                                 !.tick = 1 - @]
    /\ UNCHANGED <<bufs, errorCallback, uvOverride, rectOverride, calls, last, gl, layout>>

\* DrawCircle reaches the loop of FillCircleData, with endAngle moved a
\* turn on when it equals startAngle.
BeginCircle(segments, startAngle, endAngle) ==
    /\ loop.fn = "idle"
    /\ loop' = [Idle EXCEPT !.fn = "FillCircleData", !.n = segments,
                            !.startAngle = startAngle,
                            !.endAngle = IF startAngle = endAngle
                                         THEN startAngle + 360 ELSE endAngle]
    /\ UNCHANGED <<bufs, errorCallback, uvOverride, rectOverride, calls, last, gl, layout>>

CircleStepTest(r, k) == CircleLoopTest(r.segments, r.startAngle, r.endTimesSegments, k)

\* One evaluation of "i < end" and, when it holds, one iteration.
StepCircle ==
    /\ loop.fn = "FillCircleData"
    /\ loop' = IF CircleStepTest(CircleLoopRange(loop.n, loop.startAngle, loop.endAngle), loop.k)
               THEN [loop EXCEPT !.k = @ + 1, !.tick = 1 - @]
               ELSE Idle
    /\ UNCHANGED <<bufs, errorCallback, uvOverride, rectOverride, calls, last, gl, layout>>

\* DrawBezier reaches its sampling loop.
BeginBezier(segments) ==
    /\ loop.fn = "idle"
    /\ loop' = [Idle EXCEPT !.fn = "DrawBezier", !.n = segments]
    /\ UNCHANGED <<bufs, errorCallback, uvOverride, rectOverride, calls, last, gl, layout>>

\* One evaluation of "t < 1.0f" and, when it holds, one sample.
StepBezier ==
    /\ loop.fn = "DrawBezier"
    /\ loop' = IF BezierLoopTest(loop.n, loop.k)
               THEN [loop EXCEPT !.k = @ + 1, !.tick = 1 - @]
               ELSE Idle
    /\ UNCHANGED <<bufs, errorCallback, uvOverride, rectOverride, calls, last, gl, layout>>

NextTerm ==
    \/ \E n \in NGonCounts : BeginNGon(n)
    \/ StepNGon
    \/ \E seg \in SegmentCounts, a \in ArcAngles : BeginCircle(seg, a[1], a[2])
    \/ StepCircle
    \/ \E seg \in SegmentCounts : BeginBezier(seg)
    \/ StepBezier

\* A loop that has been entered keeps running: the drawer is single-threaded
\* and nothing else can keep an iteration from being taken.
SpecTerm ==
    /\ Init /\ [][NextTerm]_vars
    /\ WF_vars(StepNGon) /\ WF_vars(StepCircle) /\ WF_vars(StepBezier)

----------------------------------------------------------------------------
(* The GL backend, call by call.  The application sets the context's state *)
(* between frames; a frame is StartFrame, Draw* calls, EndFrame; the font  *)
(* atlas may be updated at any time.                                       *)

MaxDraws == 2

\* States an application leaves the context in: a fresh context, a 3D pass
\* (depth test, culling), and an additive overlay pass.
AppStates ==
    {GLDefaults,
     [GLDefaults EXCEPT !.cullFace = TRUE, !.depthTest = TRUE],
     [GLDefaults EXCEPT !.blend = TRUE, !.blendEq = "FUNC_SUBTRACT", !.blendDstRGB = "ONE",
                        !.stencilTest = TRUE, !.depthMask = FALSE, !.unpackAlignment = 1]}

DisplayWidths == {0, 800}
DisplayHeights == {0, 600}
\* <<m_vertexBuffer.m_size, m_indexBuffer.m_size>> of the buffers drawn.
BufferSizes == {<<0, 0>>, <<3, 3>>, <<4, 6>>}
BufferKinds == {"Default", "Gradient", "Textured", "SimpleText", "SDFText"}

AppSetsState(s) ==
    /\ ~gl.inFrame
    /\ gl.state # s
    /\ gl' = [gl EXCEPT !.state = s, !.op = "App"]
    /\ UNCHANGED <<bufs, errorCallback, uvOverride, rectOverride, calls, last, loop, layout>>

StartFrame(displayWidth, displayHeight) ==
    /\ ~gl.inFrame
    /\ gl' = [gl EXCEPT !.debugCurrentDrawCalls = 0,
                        !.debugCurrentTriangleCount = 0,
                        !.debugCurrentVertexCount = 0,
                        !.drawn = 0,
                        !.before = gl.state,
                        !.glState = SaveAPIState(gl.state),
                        !.state = FrameState(gl.state),
                        !.skipDraw = (displayWidth <= 0 \/ displayHeight <= 0),
                        !.inFrame = TRUE, !.op = "StartFrame"]
    /\ UNCHANGED <<bufs, errorCallback, uvOverride, rectOverride, calls, last, loop, layout>>

\* Draw* adding the number of indices to the triangle counter.
DrawBufferCountingIndices(kind, vertexCount, indexCount) ==
    /\ gl.inFrame
    /\ gl.drawn < MaxDraws
    /\ gl' = [gl EXCEPT !.debugCurrentDrawCalls = IF gl.skipDraw THEN @ ELSE @ + 1,
                        !.debugCurrentTriangleCount = IF gl.skipDraw THEN @ ELSE @ + indexCount,
                        !.debugCurrentVertexCount = IF gl.skipDraw THEN @ ELSE @ + vertexCount,
                        !.drawn = @ + 1,
                        !.vertexBuffer = vertexCount, !.indexBuffer = indexCount,
                        !.op = kind]
    /\ UNCHANGED <<bufs, errorCallback, uvOverride, rectOverride, calls, last, loop, layout>>

\* DrawDefault, DrawGradient, DrawTextured, DrawSimpleText and DrawSDFText
\* of a buffer with vertexCount vertices and indexCount indices.
DrawBuffer(kind, vertexCount, indexCount) ==
    /\ gl.inFrame
    /\ gl.drawn < MaxDraws
    /\ gl' = [gl EXCEPT !.debugCurrentDrawCalls = IF gl.skipDraw THEN @ ELSE @ + 1,
                        !.debugCurrentTriangleCount =
                            IF gl.skipDraw THEN @ ELSE @ + indexCount \div 3,
                        !.debugCurrentVertexCount = IF gl.skipDraw THEN @ ELSE @ + vertexCount,
                        !.drawn = @ + 1,
                        !.vertexBuffer = vertexCount, !.indexBuffer = indexCount,
                        !.op = kind]
    /\ UNCHANGED <<bufs, errorCallback, uvOverride, rectOverride, calls, last, loop, layout>>

\* What glGetShaderiv and glGetProgramiv report for one shader program.
ShaderOutcomes == {"ok", "vertex", "fragment", "link"}
ShaderCount == 5

\* CreateShader within the constructor's try block: skipped once an
\* exception is in flight.  A compile failure reports twice behind the
\* guard "if (Config.errorCallback)" and throws std::runtime_error; a link
\* failure invokes Config.errorCallback without the guard, and invoking
\* the empty callback ends the function with the first invocation.
CreateShader(b, outcome, cbSet) ==
    IF b.thrown # "none" THEN b
    ELSE IF outcome \in {"vertex", "fragment"}
    THEN [b EXCEPT !.cb = IF cbSet THEN @ + 2 ELSE @, !.thrown = "runtime_error"]
    ELSE IF outcome = "link"
    THEN IF cbSet THEN [b EXCEPT !.cb = @ + 2, !.thrown = "runtime_error"]
         ELSE [b EXCEPT !.cb = @ + 1, !.nullCalls = @ + 1, !.thrown = "empty callback"]
    ELSE [b EXCEPT !.created = @ + 1]

RECURSIVE CreateShaders(_, _, _, _)
CreateShaders(b, outcomes, i, cbSet) ==
    IF i > Len(outcomes) THEN b
    ELSE CreateShaders(CreateShader(b, outcomes[i], cbSet), outcomes, i + 1, cbSet)

\* The handler "catch (const std::runtime_error& err)" of the constructor:
\* it reports twice behind the guard and returns.  What the invocation of
\* the empty callback raised is not a std::runtime_error (an empty
\* std::function throws std::bad_function_call; calling a null function
\* pointer is undefined), so it may leave the constructor: escaped.
Caught(b, cbSet, escaped) ==
    IF b.thrown = "runtime_error" THEN [b EXCEPT !.cb = IF cbSet THEN @ + 2 ELSE @]
    ELSE IF b.thrown = "empty callback" THEN [b EXCEPT !.escaped = escaped]
    ELSE [b EXCEPT !.vao = TRUE]

\* The shader outcomes of a construction in which shader n fails with f
\* (none fails for n = 0).
OutcomesOf(n, f) == [i \in 1..ShaderCount |-> IF i = n THEN f ELSE "ok"]

\* GLBackend::GLBackend on the context, the shaders compiling and linking
\* as outcomes tells: the five CreateShader calls in the try block and the
\* handler; after a construction without failure the vertex array and the
\* buffers are generated (vao).  The context state SaveAPIState reads is
\* left alone.
GLBackendNew(outcomes, escaped) ==
    /\ ~gl.inFrame
    /\ gl.built = NoBuild
    /\ gl' = [Backend(gl.state) EXCEPT
                 !.built = Caught(CreateShaders(NoBuild, outcomes, 1, errorCallback),
                                  errorCallback, escaped),
                 !.op = "GLBackend"]
    /\ UNCHANGED <<bufs, errorCallback, uvOverride, rectOverride, calls, last, loop, layout>>

OnAtlasUpdate ==
    /\ gl' = [gl EXCEPT !.glState = SaveAPIState(gl.state),
                        !.fontTextureCreated = TRUE,
                        !.state = RestoreAPIState([gl.state EXCEPT !.unpackAlignment = 1],
                                                  SaveAPIState(gl.state)),
                        !.op = "OnAtlasUpdate"]
    /\ UNCHANGED <<bufs, errorCallback, uvOverride, rectOverride, calls, last, loop, layout>>

EndFrame ==
    /\ gl.inFrame
    /\ gl' = [gl EXCEPT !.state = RestoreAPIState(gl.state, gl.glState),
                        !.inFrame = FALSE, !.op = "EndFrame"]
    /\ UNCHANGED <<bufs, errorCallback, uvOverride, rectOverride, calls, last, loop, layout>>

InitGL ==
    /\ bufs = NoBuffers /\ errorCallback \in BOOLEAN
    /\ uvOverride = DefaultUV /\ rectOverride = NoRectOverride
    /\ calls = 0 /\ last = NoCall /\ loop = Idle
    /\ gl \in {Backend(s) : s \in AppStates}
    /\ layout = NoLayout

NextGL ==
    \/ \E s \in AppStates : AppSetsState(s)
    \/ \E w \in DisplayWidths, h \in DisplayHeights : StartFrame(w, h)
    \/ \E k \in BufferKinds, sz \in BufferSizes : DrawBuffer(k, sz[1], sz[2])
    \/ OnAtlasUpdate
    \/ EndFrame
    \/ \E n \in 0..ShaderCount, f \in ShaderOutcomes \ {"ok"}, e \in BOOLEAN :
          GLBackendNew(OutcomesOf(n, f), e)

SpecGL == InitGL /\ [][NextGL]_vars

-----------------------------------------------------------------------------
(* Text layout with positions: the font is a small table of glyphs and the *)
(* scale is 1, so every glyph coordinate is a whole number of pixels.  The  *)
(* positions the caller gives, and usedPos of ProcessText, are fixed-point  *)
(* numbers with one fractional bit: they count halves of a pixel.           *)

\* The font: m_characterGlyphs (size, bearing, advance of each glyph),
\* m_spaceAdvance, m_newLineHeight, and m_kerningTable with
\* m_supportsKerning set.
Font ==
    [glyphs |-> [c \in {"a", "b", " "} |->
                    IF c = " "
                    THEN [size |-> Pt(0, 0), bearing |-> Pt(0, 0), advance |-> Pt(4, 0)]
                    ELSE [size |-> Pt(8, 10), bearing |-> Pt(1, 10), advance |-> Pt(9, 0)]],
     spaceAdvance |-> 4, newLineHeight |-> 12,
     xAdvances |-> [p \in {<<"a", " ">>, <<"a", "b">>} |-> IF p[2] = " " THEN 64 ELSE 128]]

\* An empty TextPart.
NoPart == [str |-> <<>>, size |-> Pt(0, 0)]

\* "lines.push_back(line); line.m_str.clear(); line.m_size = Vec2(0, 0)"
\* when flush holds.
FlushLine(w, flush) ==
    IF flush THEN [w EXCEPT !.lines = Append(@, w.line), !.line = NoPart] ELSE w

\* The lambda process of WrapText for the character c, w being the lines
\* pushed, the current line and the current word.
WrapProcess(w, c, spacing, wrapWidth, wordWrap) ==
    LET ch == Font.glyphs[c]
        spaceAdvance == Font.spaceAdvance + spacing
    IN  IF ~wordWrap
        THEN [FlushLine(w, w.line.size.x + ch.size.x > wrapWidth) EXCEPT
                !.line.str = Append(@, c),
                !.line.size.x = @ + ch.advance.x,
                !.line.size.y = Max2(ch.size.y, @)]
        ELSE IF c # " "
        THEN [w EXCEPT !.word.str = Append(@, c),
                       !.word.size.x = @ + ch.advance.x,
                       !.word.size.y = Max2(@, ch.size.y)]
        ELSE [FlushLine(w, w.line.str # <<>> /\ w.line.size.x + w.word.size.x > wrapWidth) EXCEPT
                !.line.str = @ \o w.word.str \o <<" ">>,
                !.line.size.x = @ + w.word.size.x + spaceAdvance,
                !.line.size.y = Max2(@, w.word.size.y),
                !.word = NoPart]

\* The loop of WrapText over the characters of text from the i-th on.
RECURSIVE WrapChars(_, _, _, _, _, _)
WrapChars(w, text, i, spacing, wrapWidth, wordWrap) ==
    IF i > Len(text) THEN w
    ELSE WrapChars(WrapProcess(w, text[i], spacing, wrapWidth, wordWrap),
                   text, i + 1, spacing, wrapWidth, wordWrap)

\* The end of WrapText: the word left over goes to the current line, or to
\* a line of its own when it does not fit; the line left over is pushed.
WrapLeftOver(w, wrapWidth) ==
    LET tooLong == w.line.str # <<>> /\ w.line.size.x + w.word.size.x > wrapWidth
        line == IF w.word.str = <<>> THEN w.line
                ELSE IF tooLong THEN w.word
                ELSE [str |-> w.line.str \o w.word.str,
                      size |-> Pt(w.line.size.x + w.word.size.x,
                                  Max2(w.line.size.y, w.word.size.y))]
        lines == IF w.word.str # <<>> /\ tooLong THEN Append(w.lines, w.line) ELSE w.lines
    IN  IF line.str # <<>> THEN Append(lines, line) ELSE lines

\* Drawer::WrapText(lines, font, text, spacing, scale 1, wrapWidth,
\* wordWrap): the lines it pushes.
WrapText(text, spacing, wrapWidth, wordWrap) ==
    WrapLeftOver(WrapChars([lines |-> <<>>, line |-> NoPart, word |-> NoPart],
                           text, 1, spacing, wrapWidth, wordWrap),
                 wrapWidth)

\* Math::CustomRound of a number of half pixels: the nearest whole pixel,
\* a half going away from zero.
CustomRound(h) ==
    IF h % 2 = 0 THEN h \div 2
    ELSE IF h > 0 THEN (h + 1) \div 2 ELSE (h - 1) \div 2

\* Drawer::IsPointInside(point, rect)
IsPointInside(point, rect) ==
    /\ point.x > rect.x /\ point.x < rect.x + rect.z
    /\ point.y > rect.y /\ point.y < rect.y + rect.w

\* "kerning = it->second / 64" when the font supports kerning, a character
\* came before and the table has the pair; else 0.
Kerning(previousCharacter, c) ==
    IF previousCharacter # "" /\ <<previousCharacter, c>> \in DOMAIN Font.xAdvances
    THEN Font.xAdvances[<<previousCharacter, c>>] \div 64
    ELSE 0

\* What DrawText works on: its cursor and counters, the buffer, the
\* caller's TextOutData, and a log of the characters gone through.
NoTextOut == [verts |-> <<>>, idx |-> <<>>, characterInfo |-> <<>>, lineInfo |-> <<>>,
              steps |-> <<>>]

\* The log entry of one drawChar call that took t to u.
CharStep(t, u, c) ==
    [u EXCEPT !.steps = Append(@,
        [c |-> c, previousCharacter |-> t.previousCharacter, from |-> t.pos, to |-> u.pos,
         dv |-> Len(u.verts) - Len(t.verts), di |-> Len(u.idx) - Len(t.idx),
         dci |-> Len(u.characterInfo) - Len(t.characterInfo),
         inside |-> u.inside])]

\* The lambda drawChar of DrawText where a zero-sized glyph returns before
\* the cursor is moved.
drawCharBlankStays(t, c, offset, color, isGradient, spacing, totalCharacterCount, hasOutData, clip) ==
    LET ch == Font.glyphs[c]
        startIndex == Len(t.verts)
        kerning == Kerning(t.previousCharacter, c)
        ytop == t.pos.y - ch.bearing.y
        ybot == t.pos.y + (ch.size.y - ch.bearing.y)
        x2 == t.pos.x + (kerning + ch.bearing.x)
        w == ch.size.x
        h == ch.size.y
        blank == w = 0 \/ h = 0
        cols == GlyphCols(color, isGradient, t.characterCount, totalCharacterCount, t.lastMinGrad)
        p == <<Pt(x2 + offset.x, ytop + offset.y), Pt(x2 + offset.x + w, ytop + offset.y),
               Pt(x2 + offset.x + w, ybot + offset.y), Pt(x2 + offset.x, ybot + offset.y)>>
        inside == (clip.z # 0 /\ clip.w # 0) => \A k \in 1..4 : IsPointInside(p[k], clip)
        moved == [t EXCEPT !.previousCharacter = c,
                           !.pos = IF blank THEN @
                                   ELSE Pt(@.x + (kerning + ch.advance.x) + spacing,
                                           @.y + ch.advance.y),
                           !.lastMinGrad = IF isGradient /\ color.gradientType = "Horizontal"
                                           THEN cols[2] ELSE @,
                           !.inside = inside]
        ci == [x |-> p[1].x, y |-> p[4].y,
               sizeX |-> IF w = 0 THEN kerning + ch.advance.x ELSE w, sizeY |-> ybot - ytop]
        told == IF hasOutData THEN [moved EXCEPT !.characterInfo = Append(@, ci)] ELSE moved
    IN  CharStep(t,
                 IF ~inside THEN moved
                 ELSE IF blank THEN told
                 ELSE [told EXCEPT
                         !.verts = @ \o [k \in 1..4 |->
                                            Vtx(p[k], [glyph |-> c, corner |-> k - 1], cols[k])],
                         !.idx = @ \o <<startIndex, startIndex + 1, startIndex + 3,
                                        startIndex + 1, startIndex + 2, startIndex + 3>>,
                         !.characterCount = @ + 1],
                 c)

\* The lambda drawChar of DrawText for the character c.
drawChar(t, c, offset, color, isGradient, spacing, totalCharacterCount, hasOutData, clip) ==
    LET ch == Font.glyphs[c]
        startIndex == Len(t.verts)
        kerning == Kerning(t.previousCharacter, c)
        ytop == t.pos.y - ch.bearing.y
        ybot == t.pos.y + (ch.size.y - ch.bearing.y)
        x2 == t.pos.x + (kerning + ch.bearing.x)
        w == ch.size.x
        h == ch.size.y
        blank == w = 0 \/ h = 0
        cols == GlyphCols(color, isGradient, t.characterCount, totalCharacterCount, t.lastMinGrad)
        p == <<Pt(x2 + offset.x, ytop + offset.y), Pt(x2 + offset.x + w, ytop + offset.y),
               Pt(x2 + offset.x + w, ybot + offset.y), Pt(x2 + offset.x, ybot + offset.y)>>
        inside == (clip.z # 0 /\ clip.w # 0) => \A k \in 1..4 : IsPointInside(p[k], clip)
        moved == [t EXCEPT !.previousCharacter = c,
                           !.pos = Pt(@.x + (kerning + ch.advance.x) + spacing,
                                      @.y + ch.advance.y),
                           !.lastMinGrad = IF isGradient /\ color.gradientType = "Horizontal"
                                           THEN cols[2] ELSE @,
                           !.inside = inside]
        ci == [x |-> p[1].x, y |-> p[4].y,
               sizeX |-> IF w = 0 THEN kerning + ch.advance.x ELSE w, sizeY |-> ybot - ytop]
        told == IF hasOutData THEN [moved EXCEPT !.characterInfo = Append(@, ci)] ELSE moved
    IN  CharStep(t,
                 IF ~inside THEN moved
                 ELSE IF blank THEN told
                 ELSE [told EXCEPT
                         !.verts = @ \o [k \in 1..4 |->
                                            Vtx(p[k], [glyph |-> c, corner |-> k - 1], cols[k])],
                         !.idx = @ \o <<startIndex, startIndex + 1, startIndex + 3,
                                        startIndex + 1, startIndex + 2, startIndex + 3>>,
                         !.characterCount = @ + 1],
                 c)

\* The loop of DrawText over the characters of text from the i-th on.
RECURSIVE DrawChars(_, _, _, _, _, _, _, _, _)
DrawChars(t, text, i, offset, color, isGradient, spacing, hasOutData, clip) ==
    IF i > Len(text) THEN t
    ELSE DrawChars(drawChar(t, text[i], offset, color, isGradient, spacing,
                            GetTextCharacterSize(text), hasOutData, clip),
                   text, i + 1, offset, color, isGradient, spacing, hasOutData, clip)

\* Drawer::DrawText(buf, font, text, position, offset, color, spacing,
\* isGradient, scale 1, outData, clip) on the buffer and out data of o.
DrawTextAt(o, text, position, offset, color, isGradient, spacing, hasOutData, clip) ==
    LET t == DrawChars([verts |-> o.verts, idx |-> o.idx, characterInfo |-> o.characterInfo,
                        lineInfo |-> o.lineInfo, steps |-> o.steps,
                        pos |-> Pt(CustomRound(position.x), CustomRound(position.y)),
                        previousCharacter |-> "", characterCount |-> 0,
                        lastMinGrad |-> Col(color.start), inside |-> TRUE],
                       text, 1, offset, color, isGradient, spacing, hasOutData, clip)
    IN  [verts |-> t.verts, idx |-> t.idx, characterInfo |-> t.characterInfo,
         lineInfo |-> t.lineInfo, steps |-> t.steps]

\* Drawer::CalcTextSize(text, font, scale 1, spacing, ..).x
RECURSIVE CalcTextSizeX(_, _, _)
CalcTextSizeX(text, i, spacing) ==
    IF i > Len(text) THEN 0
    ELSE Font.glyphs[text[i]].advance.x + spacing + CalcTextSizeX(text, i + 1, spacing)

\* usedPos.x for a line of the width sizeX (in pixels) of a text at pos.
Aligned(pos, alignment, sizeX) ==
    IF alignment = "Center" THEN pos.x - sizeX
    ELSE IF alignment = "Right" THEN pos.x - 2 * sizeX
    ELSE pos.x

\* "outData->lineInfo.push_back(lineInfo)" at the start of a wrapped line.
OpenLine(o, usedPos, hasOutData) ==
    IF hasOutData
    THEN [o EXCEPT !.lineInfo = Append(@, [startCharacterIndex |-> Len(o.characterInfo),
                                          posX |-> usedPos.x, posY |-> usedPos.y,
                                          endCharacterIndex |-> 0])]
    ELSE o

\* "thisLine.endCharacterIndex = characterInfo.m_size - 1" at the end of a
\* wrapped line; -1 stands for the value the unsigned subtraction wraps
\* around to when no character was recorded.
CloseLine(o, hasOutData) ==
    IF hasOutData
    THEN [o EXCEPT !.lineInfo[Len(o.lineInfo)].endCharacterIndex = Len(o.characterInfo) - 1]
    ELSE o

\* The second loop of ProcessText over the wrapped lines from the n-th on,
\* usedPos being where the line before left it.
RECURSIVE DrawLinesOfText(_, _, _, _, _, _, _, _, _, _, _, _, _)
DrawLinesOfText(o, lines, n, usedPos, pos, offset, color, isGradient, spacing, alignment, newLineSpacing, hasOutData, clip) ==
    IF n > Len(lines) THEN o
    ELSE DrawLinesOfText(
            CloseLine(DrawTextAt(OpenLine(o, usedPos, hasOutData), lines[n].str,
                                 Pt(IF alignment = "Left" THEN usedPos.x
                                    ELSE Aligned(pos, alignment, lines[n].size.x), usedPos.y),
                                 offset, color, isGradient, spacing, hasOutData, clip),
                      hasOutData),
            lines, n + 1,
            Pt(IF alignment = "Left" THEN usedPos.x
               ELSE Aligned(pos, alignment, lines[n].size.x),
               usedPos.y + 2 * (Font.newLineHeight + newLineSpacing)),
            pos, offset, color, isGradient, spacing, alignment, newLineSpacing, hasOutData, clip)

\* Drawer::ProcessText(buf, font, text, pos, offset, color, spacing,
\* isGradient, scale 1, wrapWidth, rotateAngle 0, alignment, newLineSpacing,
\* .., outData, clip, wordWrap), sizeX and lines being what CalcTextSize and
\* WrapText give for the text.
ProcessTextAt(o, text, pos, offset, color, isGradient, spacing, wrapWidth, alignment, newLineSpacing, hasOutData, clip, sizeX, lines) ==
    IF wrapWidth = 0 \/ sizeX < wrapWidth
    THEN DrawTextAt(o, text, Pt(Aligned(pos, alignment, sizeX), pos.y), offset, color,
                    isGradient, spacing, hasOutData, clip)
    ELSE DrawLinesOfText(o, lines, 1,
                         Pt(pos.x, pos.y - 2 * (Max2(Len(lines), 1) - 1)
                                             * (Font.newLineHeight + newLineSpacing)),
                         pos, offset, color, isGradient, spacing, alignment, newLineSpacing,
                         hasOutData, clip)

\* "vtx.pos.x += CustomRound(position.x); vtx.pos.y += CustomRound(position.y)"
\* for the vertices from vtxStart on.
UpdatePosition(o, vtxStart, position) ==
    [o EXCEPT !.verts = [n \in 1..Len(@) |->
        IF n > vtxStart
        THEN [@[n] EXCEPT !.pos = Pt(@.x + CustomRound(position.x),
                                     @.y + CustomRound(position.y))]
        ELSE @[n]]]

\* DrawTextNormal and DrawTextSDF(text, position, opts, rotateAngle 0,
\* drawOrder, skipCache, outData) with the text cache enabled and empty,
\* into an empty buffer, for a font of the right kind and options without
\* drop shadow: what the call leaves in the buffer and in outData.
DrawTextLaidOut(text, position, color, spacing, wrapWidth, alignment, hasOutData, clip, wordWrap, skipCache) ==
    IF text = <<>> THEN NoTextOut
    ELSE IF skipCache
    THEN ProcessTextAt(NoTextOut, text, position, Pt(0, 0), color, ~IsSolidGrad(color),
                       spacing, wrapWidth, alignment, 0, hasOutData, clip,
                       CalcTextSizeX(text, 1, spacing),
                       WrapText(text, spacing, wrapWidth, wordWrap))
    ELSE UpdatePosition(ProcessTextAt(NoTextOut, text, Pt(0, 0), Pt(0, 0), color,
                               ~IsSolidGrad(color), spacing, wrapWidth, alignment, 0,
                               hasOutData, clip, CalcTextSizeX(text, 1, spacing),
                               WrapText(text, spacing, wrapWidth, wordWrap)),
                 0, position)

\* The texts of at most n characters over the font's glyphs.
RECURSIVE TextsUpTo(_)
TextsUpTo(n) ==
    IF n = 0 THEN {<<>>}
    ELSE TextsUpTo(n - 1) \cup
         {Append(t, c) : t \in {u \in TextsUpTo(n - 1) : Len(u) = n - 1},
                         c \in DOMAIN Font.glyphs}

WrapWidths == {8, 18, 22}

\* WrapText is called on a text.
CallWrapText(text, wrapWidth, wordWrap) ==
    /\ layout = NoLayout
    /\ layout' = [op |-> "WrapText", text |-> text, wrapWidth |-> wrapWidth,
                  wordWrap |-> wordWrap, lines |-> WrapText(text, 0, wrapWidth, wordWrap)]
    /\ UNCHANGED <<bufs, errorCallback, uvOverride, rectOverride, calls, last, loop, gl>>

Positions == {Pt(0, 0), Pt(200, 100), Pt(-1, 3)}
Alignments == {"Left", "Center", "Right"}
\* No clipping, and a rectangle around the text drawn at (100, 50).
Clips == {[x |-> 0, y |-> 0, z |-> 0, w |-> 0], [x |-> 90, y |-> 30, z |-> 60, w |-> 40]}

\* DrawTextNormal or DrawTextSDF is called on a text.
LayOutText(text, position, spacing, wrapWidth, alignment, hasOutData, clip, skipCache) ==
    /\ layout = NoLayout
    /\ layout' = [op |-> "DrawText", text |-> text, position |-> position,
                  spacing |-> spacing, wrapWidth |-> wrapWidth, alignment |-> alignment,
                  hasOutData |-> hasOutData, clip |-> clip, skipCache |-> skipCache,
                  out |-> DrawTextLaidOut(text, position, SolidColor("white"), spacing,
                                          wrapWidth, alignment, hasOutData, clip, TRUE,
                                          skipCache)]
    /\ UNCHANGED <<bufs, errorCallback, uvOverride, rectOverride, calls, last, loop, gl>>

\* The caller has looked at what the call gave; the buffers are reset for
\* the next one.
ForgetLayout ==
    /\ layout # NoLayout
    /\ layout' = NoLayout
    /\ UNCHANGED <<bufs, errorCallback, uvOverride, rectOverride, calls, last, loop, gl>>

NextText ==
    \/ \E t \in TextsUpTo(MaxText), w \in WrapWidths, ww \in BOOLEAN : CallWrapText(t, w, ww)
    \/ \E t \in TextsUpTo(MaxText - 1), p \in Positions, sp \in {0, 1}, w \in {0, 18},
          al \in Alignments, od \in BOOLEAN, cl \in Clips, sk \in BOOLEAN :
          LayOutText(t, p, sp, w, al, od, cl, sk)
    \/ ForgetLayout

SpecText == Init /\ [][NextText]_vars

\* C5: every draw call terminates: the loop of DrawNGon for every integer n
\* (0 and negative n included), of DrawCircle for every segment count and of
\* DrawBezier for every segment count is left after finitely many
\* iterations.
C5_LoopsTerminate == (loop.fn # "idle") ~> (loop.fn = "idle")

\* The loops of DrawCircle and DrawBezier are left after at most 181 and
\* 101 iterations, and the loop of DrawNGon with n >= 0 after at most
\* Max2(n, 1).
LoopsBounded ==
    /\ loop.fn = "FillCircleData" => loop.k <= 181
    /\ loop.fn = "DrawBezier" => loop.k <= 101
    /\ (loop.fn = "FillNGonData" /\ loop.n >= 0) => loop.k <= Max2(loop.n, 1)

----------------------------------------------------------------------------
(* What a call added, read off the buffers before and after it. *)

RECURSIVE TotalIn(_, _)
TotalIn(bs, field) ==
    IF bs = <<>> THEN 0 ELSE Len(Head(bs)[field]) + TotalIn(Tail(bs), field)

\* The number of vertices ("verts") or indices ("idx") in all buffers of b.
Total(b, field) ==
    TotalIn(b["Default"], field) + TotalIn(b["Gradient"], field)
    + TotalIn(b["Texture"], field) + TotalIn(b["SimpleText"], field)
    + TotalIn(b["SDFText"], field)

AddedVerts == Total(bufs, "verts") - Total(last.before, "verts")
AddedIdx == Total(bufs, "idx") - Total(last.before, "idx")

BufferRefs == UNION {{<<k, i>> : i \in 1..Len(bufs[k])} : k \in Kinds}

\* The length a buffer's array had before the last call.
LenBefore(ref, field) ==
    IF ref[2] <= Len(last.before[ref[1]])
    THEN Len(last.before[ref[1]][ref[2]][field]) ELSE 0

\* The vertices the last call added, over all buffers.
NewVertices ==
    UNION {{bufs[r[1]][r[2]].verts[i] :
              i \in (LenBefore(r, "verts") + 1)..Len(bufs[r[1]][r[2]].verts)} :
           r \in BufferRefs}

\* Every index the last call added points at a vertex of its buffer.
NewIndicesInRange ==
    \A r \in BufferRefs :
        \A i \in (LenBefore(r, "idx") + 1)..Len(bufs[r[1]][r[2]].idx) :
            /\ bufs[r[1]][r[2]].idx[i] >= 0
            /\ bufs[r[1]][r[2]].idx[i] < Len(bufs[r[1]][r[2]].verts)

\* The last call left every buffer as it was and asked for none.
NothingDrawn == last.req = 0 /\ bufs = last.before

----------------------------------------------------------------------------
(* Buffer well-formedness. *)

\* C1: after any sequence of public draw calls, in every buffer the number of
\* indices is a multiple of 3 and every index is at least 0 and below the
\* number of vertices of the same buffer.
C1_IndicesWellFormed ==
    \A r \in BufferRefs :
        /\ Len(bufs[r[1]][r[2]].idx) % 3 = 0
        /\ \A i \in 1..Len(bufs[r[1]][r[2]].idx) :
              /\ bufs[r[1]][r[2]].idx[i] >= 0
              /\ bufs[r[1]][r[2]].idx[i] < Len(bufs[r[1]][r[2]].verts)

----------------------------------------------------------------------------
(* Rejected calls. *)

\* C2: DrawLines with fewer than 3 points and DrawConvex with fewer than 3
\* points are rejected up front: the error callback, when set, is invoked
\* exactly once, no buffer is requested or created, and the vertex and index
\* arrays of the existing buffers are unchanged.
C2_TooFewPointsRejected ==
    (last.op \in {"DrawLines", "DrawConvex"} /\ last.args.count < 3) =>
        /\ last.cb = (IF last.cbSet THEN 1 ELSE 0)
        /\ NothingDrawn

\* A two-point DrawLines call was rejected with the callback set and with
\* geometry of an earlier call in the buffers.
C2_Witness ==
    /\ last.op = "DrawLines" /\ last.args.count = 2
    /\ last.cbSet /\ last.cb = 1
    /\ Total(last.before, "verts") > 0

\* The call was a text call whose font is of the other kind.
FontMismatch ==
    \/ last.op = "DrawTextSDF" /\ ~last.args.fontIsSDF
    \/ last.op = "DrawTextNormal" /\ last.args.fontIsSDF

\* C3 as stated: DrawTextSDF with a non-SDF font and DrawTextNormal with an
\* SDF font invoke the error callback (when it is set), request no text
\* buffer and add no vertex and no index, the drop shadow pass included.
C3_FontMismatchReported ==
    FontMismatch => (last.cbSet => last.cb >= 1) /\ NothingDrawn

\* C3: a text call whose font is of the other kind requests no buffer and
\* adds no vertex and no index, the drop shadow pass included; when the text
\* is not empty it invokes the error callback (when it is set) once, and
\* when the text is empty it returns before the font is looked at, without
\* the callback.
C3_FontMismatchRejected ==
    FontMismatch =>
        /\ NothingDrawn
        /\ last.cb = (IF last.cbSet /\ last.args.text # <<>> THEN 1 ELSE 0)

\* DrawTextSDF was called with a non-SDF font, a text, a drop shadow and the
\* callback set, after another call had drawn.
C3_Witness ==
    /\ last.op = "DrawTextSDF" /\ ~last.args.fontIsSDF
    /\ last.args.text # <<>> /\ last.args.shadow
    /\ last.cbSet /\ last.cb = 1
    /\ Total(last.before, "verts") > 0

\* C4: DrawNGon with n below 3 is an error: the error callback (when it is
\* set) is invoked and no vertex and no index is added to any buffer.
C4_SmallNGonRejected ==
    (last.op = "DrawNGon" /\ last.args.n < 3) =>
        /\ last.cbSet => last.cb >= 1
        /\ AddedVerts = 0 /\ AddedIdx = 0

----------------------------------------------------------------------------
(* Closed shapes. *)

ClosedShapeOps == {"DrawRect", "DrawTriangle", "DrawNGon", "DrawCircle", "DrawConvex"}

\* C6: DrawCircle with startAngle equal to endAngle draws a full circle for
\* every value of the angle, zero, positive or negative: a filled call adds
\* the centre vertex and one boundary vertex per segment, and one triangle
\* per segment.
C6_EqualAnglesFullCircle ==
    (/\ last.op = "DrawCircle" /\ last.args.style = Filled
     /\ last.args.startAngle = last.args.endAngle) =>
        /\ AddedVerts = 1 + Clamp(last.args.segments, 6, 180)
        /\ AddedIdx = 3 * Clamp(last.args.segments, 6, 180)

\* C7: the vertices of a closed shape (DrawRect, DrawTriangle, DrawNGon,
\* DrawCircle, DrawConvex with the points in any order) have both UV
\* components in [0, 1], one of them has UV (0, 0) and one has UV (1, 1).
\* Calls whose UVs the model does not compute are left out.
C7_UVsSpanUnitSquare ==
    (/\ last.op \in ClosedShapeOps /\ NewVertices # {}
     /\ \A v \in NewVertices : v.uv.known) =>
        /\ \A v \in NewVertices : /\ FracInUnit(v.uv.un, v.uv.ud)
                                   /\ FracInUnit(v.uv.vn, v.uv.vd)
        /\ \E v \in NewVertices : FracIs0(v.uv.un, v.uv.ud) /\ FracIs0(v.uv.vn, v.uv.vd)
        /\ \E v \in NewVertices : FracIs1(v.uv.un, v.uv.ud) /\ FracIs1(v.uv.vn, v.uv.vd)

\* The last call drew a filled convex shape with a solid colour, no
\* rounding, no outline and no anti-aliasing: a rectangle, a triangle, an
\* n-gon, a full circle or a convex polygon.
PlainConvexShape ==
    /\ last.op \in ClosedShapeOps /\ last.args.style = Filled
    /\ last.op = "DrawNGon" => last.args.n >= 3
    /\ last.op = "DrawConvex" => last.args.count >= 3
    /\ last.op = "DrawCircle" =>
          last.args.endAngle - last.args.startAngle \in {0, 360}

----------------------------------------------------------------------------
(* Outlines and joints. *)

Rings == {last.rings[i] : i \in 1..Len(last.rings)}
Joints == {last.joints[i] : i \in 1..Len(last.joints)}

\* C9: an outline ring around k boundary vertices, made by the copy-and-fill
\* of DrawOutline or by DrawOutlineAroundShape with anti-aliasing disabled,
\* adds 2k vertices, and 6k indices when the ring is closed and 6(k - 1)
\* when it is open (skipEnds).
C9_RingSizes ==
    \A r \in Rings :
        ~r.aa => /\ r.dv = 2 * r.k
                 /\ r.di = IF r.skipEnds THEN 6 * (r.k - 1) ELSE 6 * r.k

\* The last call made an open ring around at least 3 vertices without
\* anti-aliasing.
C9_Witness ==
    \E r \in Rings : ~r.aa /\ r.skipEnds /\ r.k >= 3 /\ r.di = 6 * (r.k - 1)

\* C10 as stated: in DrawLines a joint between non-parallel segments whose
\* angle is at most 15 degrees in absolute value, 15 included, is joined as
\* VtxAverage whatever joint type was asked for.
C10_UpTo15IsVtxAverage ==
    \A j \in Joints :
        (~j.parallel /\ AbsI(j.angle) <= 15) => j.used = "VtxAverage"

\* C10: a joint between non-parallel segments whose angle is below 15
\* degrees in absolute value is joined as VtxAverage whatever was asked for;
\* at 15 degrees and above the joint is the one asked for, or BevelRound in
\* place of Miter, or Bevel in place of BevelRound.
C10_Below15IsVtxAverage ==
    \A j \in Joints :
        ~j.parallel =>
            IF AbsI(j.angle) < 15 THEN j.used = "VtxAverage"
            ELSE \/ j.used = j.requested
                 \/ j.requested = "Miter" /\ j.used = "BevelRound"
                 \/ j.requested = "BevelRound" /\ j.used = "Bevel"

\* DrawLines joined two segments at exactly 15 degrees as the Bevel asked
\* for.
C10_Witness ==
    /\ last.op = "DrawLines"
    /\ \E j \in Joints : j.angle = 15 /\ j.requested = "Bevel" /\ j.used = "Bevel"

\* C11: in DrawLines a Miter joint whose angle is at least 15 degrees in
\* absolute value and exceeds Config.miterLimit is joined as BevelRound when
\* the style's rounding is not 0 and as Bevel when it is 0; a BevelRound
\* joint of at least 15 degrees with rounding 0 is joined as Bevel.
C11_MiterFallsBackByRounding ==
    \A j \in Joints :
        (~j.parallel /\ AbsI(j.angle) >= 15) =>
            /\ (j.requested = "Miter" /\ AbsI(j.angle) > j.miterLimit) =>
                  j.used = (IF j.rounding # 0 THEN "BevelRound" ELSE "Bevel")
            /\ (j.requested = "BevelRound" /\ j.rounding = 0) => j.used = "Bevel"

\* C12: in DrawLines two consecutive parallel segments are merged, not
\* joined: the joint adds no vertex and no triangle to the first segment
\* (it keeps its 4 vertices and 2 triangles), and the second segment loses
\* its start corners, local indices 0 and 3, from its upper and lower index
\* lists; a polyline of parallel segments only adds 4 vertices and 2
\* triangles per segment.
C12_ParallelSegmentsMerge ==
    /\ \A j \in Joints :
          j.parallel =>
              /\ j.used = "None"
              /\ j.line1.nverts = 4 /\ j.line1.ntris = 2
              /\ \A k \in 1..Len(j.line2.upper) : j.line2.upper[k] # 0
              /\ \A k \in 1..Len(j.line2.lower) : j.line2.lower[k] # 3
              /\ Len(j.line2.upper) >= 1 /\ j.line2.upper[1] = 1
              /\ Len(j.line2.lower) >= 1 /\ j.line2.lower[1] = 2
    /\ (/\ last.op = "DrawLines" /\ last.args.style = Filled /\ Joints # {}
        /\ \A j \in Joints : j.parallel) =>
            /\ AddedVerts = 4 * (last.args.count - 1)
            /\ AddedIdx = 6 * (last.args.count - 1)

\* DrawLines drew three collinear points: 8 vertices, 4 triangles, and the
\* second segment's index lists start at its corners 1 and 2.
C12_Witness ==
    /\ last.op = "DrawLines" /\ last.args.angles = <<0>>
    /\ AddedVerts = 8 /\ AddedIdx = 12
    /\ last.joints[1].line2.upper = <<1>> /\ last.joints[1].line2.lower = <<2>>

\* C13: DrawLines with 3 points forming a 90 degree bend, joint type Bevel,
\* no caps, no outline and no anti-aliasing adds one joint vertex and one
\* joint triangle to the first segment: the buffer gains 9 vertices and 15
\* indices.
C13_BevelBendAddsOneTriangle ==
    (/\ last.op = "DrawLines" /\ last.args.count = 3 /\ last.args.style = Filled
     /\ last.args.jointType = "Bevel" /\ AbsI(last.args.angles[1]) = 90) =>
        /\ AddedVerts = 9 /\ AddedIdx = 15
        /\ NewIndicesInRange
        /\ last.joints[1].used = "Bevel"
        /\ last.joints[1].line1.nverts = 5 /\ last.joints[1].line1.ntris = 3
        /\ last.joints[1].line2.nverts = 4 /\ last.joints[1].line2.ntris = 2

\* A Bevel bend of 90 degrees was drawn behind the geometry of an earlier
\* call.
C13_Witness ==
    /\ last.op = "DrawLines" /\ last.args.count = 3 /\ last.args.style = Filled
    /\ last.args.jointType = "Bevel" /\ last.args.angles = <<90>>
    /\ AddedVerts = 9 /\ AddedIdx = 15
    /\ Total(last.before, "verts") > 0

\* What DrawLine with cap None leaves of the buffers b for the two points
\* of the model's lines.
SingleLine(b, style, drawOrder) ==
    DrawLineOn(NewD(b, DefaultUV, NoRectOverride), Pt(0, 1000), Pt(4000, 1000),
               style, "None", 0, drawOrder).bufs

\* C14 as stated: DrawLines on exactly 2 points with cap None adds the quad
\* DrawLine adds for the same style: as many vertices and as many indices.
C14_TwoPointPolylineIsLine ==
    (last.op = "DrawLines" /\ last.args.count = 2) =>
        /\ AddedVerts = Total(SingleLine(last.before, last.args.style, last.args.drawOrder),
                              "verts") - Total(last.before, "verts")
        /\ AddedIdx = Total(SingleLine(last.before, last.args.style, last.args.drawOrder),
                            "idx") - Total(last.before, "idx")

\* C14: DrawLines on exactly 2 points is rejected and draws nothing; the
\* quad of two points is drawn by DrawLine only, which with cap None and a
\* plain style adds 4 vertices, at the corners up of p1, up of p2, down of
\* p2, down of p1 in this order, and 2 triangles.
C14_TwoPointPolylineRejected ==
    /\ (last.op = "DrawLines" /\ last.args.count = 2) =>
          NothingDrawn /\ last.cb = (IF last.cbSet THEN 1 ELSE 0)
    /\ (last.op = "DrawLine" /\ last.args.cap = "None" /\ last.args.style = Filled) =>
          /\ AddedVerts = 4 /\ AddedIdx = 6
          /\ \E r \in BufferRefs :
                LET vs == bufs[r[1]][r[2]].verts
                    n0 == LenBefore(r, "verts")
                IN  /\ Len(vs) = n0 + 4
                    /\ [k \in 1..4 |-> vs[n0 + k].pos]
                         = <<LineCorner(Pt(0, 1000), "up", last.args.style.thickness.start),
                             LineCorner(Pt(4000, 1000), "up", last.args.style.thickness.end),
                             LineCorner(Pt(4000, 1000), "down", last.args.style.thickness.end),
                             LineCorner(Pt(0, 1000), "down", last.args.style.thickness.start)>>

\* A 2-point DrawLines call was rejected right after DrawLine had drawn its
\* quad into the empty buffers.
C14_Witness ==
    /\ last.op = "DrawLines" /\ last.args.count = 2
    /\ last.before = SingleLine(NoBuffers, Filled, 0)
    /\ bufs = last.before

\* A style with rounding 0, one solid colour, no texture, filled, without
\* outline and without anti-aliasing.
PlainFilledSolid(style) ==
    /\ style.rounding = 0 /\ IsSolid(style) /\ style.textureHandle = 0
    /\ style.isFilled /\ style.outlineOptions.thickness = 0 /\ ~style.aaEnabled

\* C15: DrawRect with a plain filled solid style adds exactly 4 vertices and
\* 6 indices, all to the default buffer of its draw order; the 4 vertices
\* carry the style colour and, in push order, the UVs (0,0), (1,0), (1,1),
\* (0,1); the indices are the two triangles (0,1,3) and (1,2,3) of the quad.
C15_PlainRectIsOneQuad ==
    (last.op = "DrawRect" /\ PlainFilledSolid(last.args.style)) =>
        /\ AddedVerts = 4 /\ AddedIdx = 6
        /\ \E i \in 1..Len(bufs["Default"]) :
              LET b == bufs["Default"][i]
                  n0 == LenBefore(<<"Default", i>>, "verts")
                  i0 == LenBefore(<<"Default", i>>, "idx")
              IN  /\ b.key.order = last.args.drawOrder
                  /\ Len(b.verts) = n0 + 4 /\ Len(b.idx) = i0 + 6
                  /\ \A k \in 1..4 : b.verts[n0 + k].col = Col(last.args.style.color.start)
                  /\ [k \in 1..4 |-> b.verts[n0 + k].uv]
                       = <<UVc(0, 0), UVc(1, 0), UVc(1, 1), UVc(0, 1)>>
                  /\ [k \in 1..6 |-> b.idx[i0 + k]]
                       = <<n0, n0 + 1, n0 + 3, n0 + 1, n0 + 2, n0 + 3>>

\* A plain rectangle was drawn into a default buffer that already held the
\* geometry of an earlier call.
C15_Witness ==
    /\ last.op = "DrawRect" /\ PlainFilledSolid(last.args.style)
    /\ AddedVerts = 4 /\ AddedIdx = 6
    /\ \E i \in 1..Len(bufs["Default"]) : Len(bufs["Default"][i].verts) > 4

\* C16: a filled full circle (the angles 0 and 360, or equal angles) drawn
\* with a plain style and s segments adds c + 1 vertices, the centre and c
\* boundary vertices, and c triangles, c being s clamped to [6, 180]; a
\* filled partial arc adds one triangle fewer than it has boundary vertices.
C16_CircleFanCounts ==
    (last.op = "DrawCircle" /\ last.args.style = Filled) =>
        IF \/ last.args.startAngle = last.args.endAngle
           \/ AbsI(last.args.endAngle - last.args.startAngle) = 360
        THEN /\ AddedVerts = Clamp(last.args.segments, 6, 180) + 1
             /\ AddedIdx = 3 * Clamp(last.args.segments, 6, 180)
        ELSE AddedIdx = 3 * ((AddedVerts - 1) - 1)

\* The text calls, and the colours of the vertices the last call added to
\* its text buffer (not the drop shadow's), in push order.
TextOps == {"DrawTextSDF", "DrawTextNormal"}
GlyphColours ==
    LET kind == IF last.op = "DrawTextSDF" THEN "SDFText" ELSE "SimpleText"
        hit == {i \in 1..Len(bufs[kind]) : ~bufs[kind][i].key.shadow}
    IN  IF hit = {} THEN <<>>
        ELSE LET r == <<kind, CHOOSE i \in hit : TRUE>>
                 n0 == LenBefore(r, "verts")
             IN  [k \in 1..(Len(bufs[r[1]][r[2]].verts) - n0) |->
                    bufs[r[1]][r[2]].verts[n0 + k].col]

\* The text "ab" was drawn with a horizontal gradient from white to black.
GradientAB ==
    /\ last.op \in TextOps /\ last.args.text = <<"a", "b">>
    /\ last.args.color = Gradient("white", "black", "Horizontal")

\* C17 as stated: the text "ab" drawn with a horizontal gradient from white
\* to black has the 4 vertices of its first glyph white and the 4 vertices
\* of its second glyph black.
C17_GlyphsWhiteThenBlack ==
    GradientAB =>
        /\ Len(GlyphColours) = 8
        /\ \A k \in 1..4 : GlyphColours[k] = Col("white")
        /\ \A k \in 5..8 : GlyphColours[k] = Col("black")

\* C17: the text "ab" drawn with a horizontal gradient from white to black
\* runs the gradient through both glyphs: the first glyph's left vertices
\* (v0, v3) are white and its right vertices (v1, v2) have the colour half
\* way, the second glyph's left vertices have that colour and its right
\* vertices are black.
C17_GradientRunsThroughGlyphs ==
    GradientAB =>
        GlyphColours =
            <<Col("white"), LerpCol(Col("white"), Col("black"), 1, 2),
              LerpCol(Col("white"), Col("black"), 1, 2), Col("white"),
              LerpCol(Col("white"), Col("black"), 1, 2), Col("black"),
              Col("black"), LerpCol(Col("white"), Col("black"), 1, 2)>>

\* "ab" was drawn with the gradient: 8 vertices, the second of them neither
\* white nor black.
C17_Witness ==
    /\ GradientAB /\ AddedVerts = 8 /\ AddedIdx = 12
    /\ GlyphColours[2] \notin {Col("white"), Col("black")}

\* C18: what DrawRect adds depends on its arguments and on the buffers it
\* draws into only, not on the calls completed before it (DrawImage,
\* DrawLine, DrawLines, text): it leaves the buffers as the computation from
\* untouched UV and rectangle overrides does, so two calls with the same
\* arguments into fresh buffers give the same positions, UVs and indices.
C18_RectIndependentOfHistory ==
    last.op = "DrawRect" =>
        bufs = DrawRectOn(NewD(last.before, DefaultUV, NoRectOverride),
                          Pt(0, 0), Pt(4000, 2000), last.args.style,
                          last.args.rotateAngle, last.args.drawOrder).bufs

\* C19: the GL backend restores the graphics state: when EndFrame returns,
\* after StartFrame and any Draw* and OnAtlasUpdate calls, every value saved
\* by SaveAPIState (the blend, cull-face, depth-test, stencil-test and
\* scissor-test enables, the depth mask, the blend equation and functions,
\* the unpack alignment) is what it was before StartFrame.
C19_FrameRestoresState ==
    gl.op = "EndFrame" => gl.state = gl.before

\* C20: within one draw call no stale buffer pointer is dereferenced: a
\* pointer into a buffer array is resolved again through its index before
\* it is read or written after a Get*Buffer call that may have added a
\* buffer to that array, also in DrawOutline for a stroked shape with an
\* outline and anti-aliasing, where a nested DrawOutline precedes the outer
\* copyAndFill.
C20_NoStalePointerDereferenced ==
    ~last.stale

\* The outline rings (not the anti-aliasing fringes) DrawOutline built in
\* the last call, as positions of the ring log.
OutlineRings ==
    {i \in 1..Len(last.rings) : ~last.rings[i].aa /\ last.rings[i].by = "DrawOutline"}

\* The last call drew a shape whose outline has a thickness and the draw
\* direction Both.
OutlinedBoth ==
    /\ last.op \in ClosedShapeOps
    /\ last.args.style.outlineOptions.thickness # 0
    /\ last.args.style.outlineOptions.drawDirection = "Both"

\* C21 as stated: with the outline draw direction Both DrawOutline builds
\* two rings, one extruded by +thickness and one by -thickness, for a
\* filled shape as for a stroked one.
C21_BothExtrudesTwice ==
    (OutlinedBoth /\ OutlineRings # {}) =>
        /\ Cardinality(OutlineRings) = 2
        /\ \E i \in OutlineRings :
              last.rings[i].thickness = last.args.style.outlineOptions.thickness
        /\ \E i \in OutlineRings :
              last.rings[i].thickness = -last.args.style.outlineOptions.thickness

\* C21: with the outline draw direction Both a stroked shape gets two
\* outline rings, the first extruded by -thickness from the inner half of
\* its vertices and the second by +thickness from the outer half; a filled
\* shape gets one ring only, extruded by +thickness as for Outwards.
C21_BothExtrudesTwiceWhenStroked ==
    (OutlinedBoth /\ OutlineRings # {}) =>
        IF last.args.style.isFilled
        THEN /\ Cardinality(OutlineRings) = 1
             /\ \A i \in OutlineRings :
                   last.rings[i].thickness = last.args.style.outlineOptions.thickness
        ELSE \E i, j \in OutlineRings :
                /\ i < j /\ OutlineRings = {i, j}
                /\ last.rings[i].thickness = -last.args.style.outlineOptions.thickness
                /\ last.rings[j].thickness = last.args.style.outlineOptions.thickness
                /\ last.rings[i].k = last.rings[j].k

\* A stroked rectangle outlined both ways was drawn and got its two rings.
C21_Witness ==
    OutlinedBoth /\ ~last.args.style.isFilled /\ Cardinality(OutlineRings) = 2

\* The vertex at the 0-based position i of the buffer ref as the last call
\* left it.
LeftAt(ref, i) ==
    IF i >= 0 /\ i < Len(bufs[ref[1]][ref[2]].verts)
    THEN bufs[ref[1]][ref[2]].verts[i + 1]
    ELSE Vtx(Indeterminate, UVunknown, NoCol)

\* The ring r is an anti-aliasing fringe: its inner vertices have the
\* colours of the vertices they were copied from, its outer vertices the
\* same colours with alpha 0.
FringeFades(r) ==
    \A i \in 1..r.k :
        /\ i <= Len(r.from)
        /\ LeftAt(r.dst, r.start + i - 1).col = LeftAt(r.src, r.from[i]).col
        /\ LeftAt(r.dst, r.start + r.k + i - 1).col =
               [LeftAt(r.src, r.from[i]).col EXCEPT !.a = 0]

\* C22: in every anti-aliasing fringe ring, from DrawOutline or from
\* DrawOutlineAroundShape, each copied inner vertex has the colour of its
\* source vertex, alpha included, and each extruded outer vertex the same
\* RGB with alpha 0; the fringe is in a buffer of shape type AA, which is
\* not the buffer of the shape.
C22_FringeFadesToTransparent ==
    \A r \in Rings :
        r.aa => r.shape = "AA" /\ r.dst # r.src /\ FringeFades(r)

\* The words of a line: its maximal runs of characters other than spaces,
\* counted by their first characters.
Words(str) ==
    {i \in 1..Len(str) : str[i] # " " /\ (i = 1 \/ str[i - 1] = " ")}

\* C23: WrapText with word wrapping forces at least one word per line:
\* whatever the text (leading, trailing and consecutive spaces included)
\* and the wrap width, every line it emits has at least one word, and a
\* line wider than the wrap width is a single word.
C23_AtLeastOneWordPerLine ==
    (layout.op = "WrapText" /\ layout.wordWrap) =>
        \A n \in 1..Len(layout.lines) :
            /\ Words(layout.lines[n].str) # {}
            /\ layout.lines[n].size.x > layout.wrapWidth =>
                  Cardinality(Words(layout.lines[n].str)) = 1

\* The characters DrawText went through in the last layout call.
CharSteps ==
    IF layout.op = "DrawText"
    THEN {layout.out.steps[i] : i \in 1..Len(layout.out.steps)}
    ELSE {}

\* The glyph of c has no width or no height.
Blank(c) == Font.glyphs[c].size.x = 0 \/ Font.glyphs[c].size.y = 0

\* C24: in DrawText a character whose glyph has no width or no height (a
\* space) adds no vertex and no index, the cursor still advances by
\* (kerning + advance.x) * scale + spacing, and when outData is given and
\* the character is not clipped, exactly one character-info record is
\* appended for it.
C24_BlankAdvancesCursor ==
    \A st \in CharSteps :
        Blank(st.c) =>
            /\ st.dv = 0 /\ st.di = 0
            /\ st.to.x = st.from.x + Kerning(st.previousCharacter, st.c)
                                   + Font.glyphs[st.c].advance.x + layout.spacing
            /\ (layout.hasOutData /\ st.inside) => st.dci = 1

\* A space after an "a" (a pair with kerning) went through with spacing,
\* out data and a clip rectangle it is inside of.
C24_Witness ==
    \E st \in CharSteps :
        /\ Blank(st.c) /\ Kerning(st.previousCharacter, st.c) = 1
        /\ layout.spacing = 1 /\ layout.hasOutData /\ layout.clip.z # 0 /\ st.inside
        /\ st.dci = 1 /\ st.to.x = st.from.x + 6

\* C25: with text caching enabled, DrawTextNormal (and DrawTextSDF) with
\* skipCache false leaves as many vertices and indices, at the same
\* positions, as with skipCache true, for every text, alignment and
\* cpuClipping rectangle: shaping at the origin and translating by the
\* rounded position equals shaping at the position.
C25_CachedEqualsDirect ==
    (layout.op = "DrawText" /\ ~layout.skipCache) =>
        LET direct == DrawTextLaidOut(layout.text, layout.position, SolidColor("white"),
                                      layout.spacing, layout.wrapWidth, layout.alignment,
                                      layout.hasOutData, layout.clip, TRUE, TRUE)
        IN  /\ Len(layout.out.verts) = Len(direct.verts)
            /\ layout.out.idx = direct.idx
            /\ \A n \in 1..Len(direct.verts) : layout.out.verts[n].pos = direct.verts[n].pos

\* The drawer state the last call, a shape call, leaves when it is made
\* with the rotateAngle 0 and its other arguments, from the same buffers.
Unrotated ==
    LET D == NewD(last.before, DefaultUV, NoRectOverride)
        a == last.args
    IN  CASE last.op = "DrawRect" ->
               DrawRectOn(D, Pt(0, 0), Pt(4000, 2000), a.style, 0, a.drawOrder)
          [] last.op = "DrawTriangle" ->
               DrawTriangleOn(D, Pt(3000, 0), Pt(6000, 3000), Pt(0, 3000), a.style, 0, a.drawOrder)
          [] last.op = "DrawNGon" ->
               DrawNGonOn(D, Pt(0, 0), 1000, a.n, a.style, 0, a.drawOrder)
          [] last.op = "DrawConvex" ->
               DrawConvexOn(D, last.cbSet, a.points, a.count, a.style, 0, a.drawOrder)
          [] last.op = "DrawCircle" ->
               DrawCircleOn(D, Pt(0, 0), 1000, a.style, a.segments, 0,
                            a.startAngle, a.endAngle, a.drawOrder)

\* The vertices of the buffer ref, as 1-based positions, that the last call
\* added as the fill or stroke of its shape: the ones outside every ring
\* of an outline or of a fringe.
OwnVertices(ref) ==
    {n \in LenBefore(ref, "verts") + 1 .. Len(bufs[ref[1]][ref[2]].verts) :
        \A r \in Rings : ~(r.dst = ref /\ n > r.start /\ n <= r.start + 2 * r.k)}

\* The buffers hold what the buffers R hold, positions apart: as many
\* buffers, vertices and indices, the same index values, and for the
\* shape's own vertices the same UVs and colours.
SameSampling(R) ==
    \A kind \in Kinds :
        /\ Len(bufs[kind]) = Len(R[kind])
        /\ \A i \in 1..Len(bufs[kind]) :
              /\ Len(bufs[kind][i].verts) = Len(R[kind][i].verts)
              /\ bufs[kind][i].idx = R[kind][i].idx
              /\ \A n \in OwnVertices(<<kind, i>>) :
                    /\ bufs[kind][i].verts[n].uv = R[kind][i].verts[n].uv
                    /\ bufs[kind][i].verts[n].col = R[kind][i].verts[n].col
                    /\ last.args.rotateAngle = 0 =>
                          bufs[kind][i].verts[n].pos = R[kind][i].verts[n].pos

\* C26: rotation has no effect on sampling: a shape draw call leaves as
\* many vertices and indices, the same index values and, on the vertices of
\* the shape's own fill or stroke, the same UVs and colours for every
\* rotateAngle; only positions differ, and with rotateAngle 0 no position is
\* touched.
C26_RotationKeepsSampling ==
    last.op \in ClosedShapeOps => SameSampling(Unrotated.bufs)

\* The debug counters of Config: draw calls, triangles, vertices.
DebugCounters(g) ==
    <<g.debugCurrentDrawCalls, g.debugCurrentTriangleCount, g.debugCurrentVertexCount>>

\* C27: StartFrame sets the draw-call, triangle and vertex debug counters to
\* 0; after it each Draw* call that is executed adds 1 to the draw-call
\* counter, a third of the buffer's index count to the triangle counter and
\* the buffer's vertex count to the vertex counter; when StartFrame saw a
\* display width or height of 0, every Draw* call up to the next StartFrame
\* is skipped and the three counters stay 0.
C27_DebugCounters ==
    [][/\ (~gl.inFrame /\ gl'.inFrame) => DebugCounters(gl') = <<0, 0, 0>>
       /\ (gl'.drawn = gl.drawn + 1) =>
             IF gl.skipDraw
             THEN DebugCounters(gl') = <<0, 0, 0>>
             ELSE DebugCounters(gl') =
                     <<gl.debugCurrentDrawCalls + 1,
                       gl.debugCurrentTriangleCount + gl'.indexBuffer \div 3,
                       gl.debugCurrentVertexCount + gl'.vertexBuffer>>
       /\ (gl.inFrame /\ gl'.drawn = gl.drawn) => DebugCounters(gl') = DebugCounters(gl)]_vars

\* Two buffers were drawn in a frame, a quad and a triangle.
C27_Witness ==
    /\ gl.inFrame /\ ~gl.skipDraw /\ gl.drawn = 2
    /\ DebugCounters(gl) = <<2, 3, 7>>

\* C28: after any sequence of completed public draw calls the rectangle
\* position override (set by DrawLine through DrawSimpleLine) is off, and
\* the UV override (set by DrawImage) is off with its corners back at (0, 0)
\* and (1, 1).
C28_OverridesOff ==
    /\ ~rectOverride.on
    /\ ~uvOverride.on /\ uvOverride.tl = Pt(0, 0) /\ uvOverride.br = Pt(1, 1)

\* A DrawLine that went through the rectangle override has completed after
\* a DrawImage that filled a texture buffer.
C28_Witness ==
    /\ calls = 2 /\ last.op = "DrawLine"
    /\ rectOverride.p # NoRectOverride.p /\ ~rectOverride.on
    /\ Len(last.before["Texture"]) = 1 /\ ~uvOverride.on

\* The buffer kind DrawRect is said to pick for a style.
RectBufferKind(style) ==
    IF style.textureHandle # 0 THEN "Texture"
    ELSE IF /\ style.color.start # style.color.end
            /\ \/ style.rounding # 0
               \/ style.color.gradientType \in {"Radial", "RadialCorner"}
    THEN "Gradient"
    ELSE "Default"

\* The buffers in b of the kind and key of the pair kk.
Keyed(b, kk) == {i \in 1..Len(b[kk[1]]) : b[kk[1]][i].key = kk[2]}

\* C29: the first buffer a DrawRect call requests, the one its shape is
\* written to, is the texture buffer when the style has a texture handle,
\* else the gradient buffer when the two colours differ and the rectangle is
\* rounded or the gradient radial, else the default buffer; it is requested
\* with shape type Shape and the call's draw order, and the call leaves
\* vertices in it.
C29_RectBuffer ==
    last.op = "DrawRect" =>
        /\ last.req >= 1
        /\ last.first[1] = RectBufferKind(last.args.style)
        /\ last.first[2].shape = "Shape"
        /\ last.first[2].order = last.args.drawOrder
        /\ \E i \in Keyed(bufs, last.first) :
              /\ bufs[last.first[1]][i].verts # <<>>
              /\ \A j \in Keyed(last.before, last.first) :
                    Len(bufs[last.first[1]][i].verts) > Len(last.before[last.first[1]][j].verts)

\* C29's case: a rectangle with a texture and a radial gradient, drawn at
\* draw order 1, went to the texture buffer of that order.
C29_Witness ==
    /\ last.op = "DrawRect"
    /\ last.args.style = TexturedRadial
    /\ last.args.drawOrder = 1
    /\ last.first = <<"Texture", [order |-> 1, shape |-> "Shape", tex |-> 1]>>

\* C30: the construction of a backend never invokes the error callback
\* while it is empty, and nothing a shader failure raises leaves the
\* constructor.
C30_CallbackGuarded ==
    gl.op = "GLBackend" => gl.built.nullCalls = 0 /\ ~gl.built.escaped

=============================================================================
